---- MODULE Spec2Model ----
(***************************************************************************)
(* Model of VideoFaceRecognizer (src/src/video_recognition/               *)
(* video_processor.py): the parallel frame pipeline                        *)
(* (process_video_with_parallel_frames) and the sequential pipeline with   *)
(* its checkpoint file (process_video_file, _save_checkpoint,              *)
(* _load_checkpoint), the skip rate (_calculate_smart_skip) and the scope  *)
(* resolver (_search_in_movie_scope over search_similar_faces of           *)
(* src/src/database/vector_database.py), the faces of a frame              *)
(* (recognize_faces_in_frame), the periodic memory checks, the exits of a  *)
(* call by error, stop or completion, the confidence tier, the progress    *)
(* reports, and the label and the annotated frame of                       *)
(* draw_face_annotations (with draw_text_with_outline of                   *)
(* src/src/utils/chinese_text_renderer.py).                                *)
(*                                                                         *)
(* A frame is named by its 1-based frame number.  fps is kept in           *)
(* thousandths of a frame per second so that the duration bands of         *)
(* _calculate_smart_skip are reached by videos of a few frames.            *)
(***************************************************************************)
EXTENDS Integers, Sequences, FiniteSets, TLC

\* ---------------------------------------------------------------- bounds
MaxFrames == 4
MaxWorkers == 2
MaxRuns == 2
FpsMilliSet == {1, 100, 1000}
Movies == {"A", "B"}
Thresholds == {6, 7}
Actors == {"x"}
Videos == {[dir |-> "d", stem |-> "a", ext |-> "mp4"],
           [dir |-> "d", stem |-> "b", ext |-> "mp4"]}

\* ------------------------------------------------------- shared helpers
None == 0

Range(s) == {s[i] : i \in DOMAIN s}

Max2(a, b) == IF a >= b THEN a ELSE b

RECURSIVE SortedSeq(_)
SortedSeq(S) ==
    IF S = {} THEN <<>>
    ELSE LET m == CHOOSE x \in S : \A y \in S : x <= y
         IN <<m>> \o SortedSeq(S \ {m})

Min2(a, b) == IF a <= b THEN a ELSE b

\* every ordering of a finite set as a sequence: list(a_set)
Orderings(S) ==
    {q \in [1..Cardinality(S) -> S] : \A i, j \in 1..Cardinality(S) :
                                        i # j => q[i] # q[j]}

\* self.memory_check_interval
MemoryCheckInterval == 100

\* max(1, min(int(fps * 3), 150)), line 695
ProgressInterval(fpsMilli) == Max2(1, Min2((fpsMilli * 3) \div 1000, 150))

\* max(1, int(fps * 30)), line 738
CheckpointInterval(fpsMilli) == Max2(1, (fpsMilli * 30) \div 1000)

\* ------------------------------------------------ checkpoint file
NoFile == [dir |-> "None", name |-> "None"]
Absent == [kind |-> "absent"]
\* the text json.dump had written when it raised: not parseable
Partial == [kind |-> "partial"]
NoCheckpoint == [kind |-> "none"]
NoSave == [kind |-> "none"]
NoActor == "unrecognized"

\* checkpoints/<stem>_checkpoint.json beside the video, lines 177-180, 200-202
CheckpointPath(v) == [dir |-> v.dir, name |-> v.stem]

CheckpointPaths == {CheckpointPath(v) : v \in Videos}

\* actors_found is a Python set while a fresh call runs and a list once it
\* went through list() or through JSON
SetOf(S) == [kind |-> "set", elems |-> S]
ListOf(q) == [kind |-> "list", elems |-> q]

\* processing_time: the 0 a fresh stats dict holds, line 636, and the
\* time.time() - start_time of line 757
NoTime == [kind |-> "zero"]
Elapsed == [kind |-> "elapsed"]

\* the stats dict of lines 629-639
FreshStats(total, skip) ==
    [total_frames |-> total, processed_frames |-> 0, faces_detected |-> 0,
     faces_recognized |-> 0, actors_found |-> SetOf({}),
     processing_time |-> NoTime,
     memory_warnings |-> 0, gc_collections |-> 0,
     effective_skip_rate |-> skip]

\* max_memory_usage of __init__, line 29, in percent
MaxMemoryUsage == 80

\* the warning level of line 670, in percent
MemoryWarnLevel == 90

\* what psutil.virtual_memory().percent can read, lines 112-120: at the
\* limit, above it, above the warning level
MemoryReadings == {MaxMemoryUsage, 85, 91}

\* the readings taken at frame count: psutil is read only at a periodic
\* check, line 665 (elsewhere nothing is read and one value stands for it)
ReadingsAt(count) ==
    IF count % MemoryCheckInterval = 0 THEN MemoryReadings
    ELSE {MaxMemoryUsage}

\* _should_gc_collect collecting at the limit as well
ShouldGcCollectAtLimit(force, usage) == force \/ usage >= MaxMemoryUsage

\* _should_gc_collect, lines 145-155; usage is what _check_memory_usage reads
ShouldGcCollect(force, usage) == force \/ usage > MaxMemoryUsage

\* line 651: while not self.should_stop
LoopContinues(stop) == ~stop

\* an exception leaving the call instead of being caught
OnExceptionRaised == "raised"

\* lines 771-773: except Exception as e: return {'error': str(e)}
OnException == "error"

\* json.dump accepts dicts, lists, strings and numbers; a set raises TypeError
JsonSerializable(st) == st.actors_found.kind = "list"

\* the file content _save_checkpoint leaves, lines 182-196: the record, or
\* the text written before json.dump raised on the set
SavedFile(current_frame, st, movie, threshold) ==
    IF JsonSerializable(st)
    THEN [kind |-> "record", current_frame |-> current_frame, stats |-> st,
          movie_title |-> movie, similarity_threshold |-> threshold]
    ELSE Partial

\* _load_checkpoint with the threshold comparison of line 213 left out
LoadCheckpointMovieOnly(file, movie, threshold) ==
    IF file.kind = "absent" THEN NoCheckpoint
    ELSE IF file.kind = "partial" THEN NoCheckpoint
    ELSE IF file.movie_title = movie THEN file
         ELSE NoCheckpoint

\* _load_checkpoint, lines 198-222, on the content of the checkpoint file
LoadCheckpoint(file, movie, threshold) ==
    IF file.kind = "absent" THEN NoCheckpoint
    ELSE IF file.kind = "partial" THEN NoCheckpoint
    ELSE IF file.movie_title = movie /\ file.similarity_threshold = threshold
         THEN file
         ELSE NoCheckpoint

\* _calculate_smart_skip with each boundary given to the upper band
CalculateSmartSkipStrict(smart_skip_enabled, fpsMilli, total) ==
    IF ~smart_skip_enabled THEN 1
    ELSE IF total * 1000 < 30 * 60 * fpsMilli THEN 1
    ELSE IF total * 1000 < 90 * 60 * fpsMilli THEN 2
    ELSE IF total * 1000 < 180 * 60 * fpsMilli THEN 3
    ELSE 5

\* _calculate_smart_skip: duration_minutes = total_frames / fps / 60,
\* compared against 30, 90 and 180 (fps = fpsMilli / 1000).
CalculateSmartSkip(smart_skip_enabled, fpsMilli, total) ==
    IF ~smart_skip_enabled THEN 1
    ELSE IF total * 1000 <= 30 * 60 * fpsMilli THEN 1
    ELSE IF total * 1000 <= 90 * 60 * fpsMilli THEN 2
    ELSE IF total * 1000 <= 180 * 60 * fpsMilli THEN 3
    ELSE 5

\* line 613 with the caller's frame_skip ignored
EffectiveSkipComputedOnly(requested, computed) == computed

\* line 613: effective_skip = max(frame_skip, smart_skip)
EffectiveSkip(requested, computed) == Max2(requested, computed)

\* line 659 testing the 0-based frame number
IsSkippedZeroBased(count, skip) == (count - 1) % skip # 0

\* line 659: frame_count % effective_skip != 0, on the 1-based frame number
IsSkipped(count, skip) == count % skip # 0

\* ------------------------------------------------------------ variables
VARIABLES
    \* recognizer instance
    long_video_mode,    \* self.long_video_mode (= self.smart_skip_enabled)
    is_processing,      \* self.is_processing
    should_stop,        \* self.should_stop
    movie_title,        \* self.movie_title
    similarity_threshold, \* self.similarity_threshold, in tenths
    movie_actors,       \* keys of self.movie_actors
    index,              \* self.vector_db: the entries, each with its similarity
                        \* to the face being resolved, nearest first
    checkpoint_file,    \* self.checkpoint_file (NoFile = None)
    last_progress,      \* self._last_progress, as the frame it was set at
    \* the video source and the file system
    total_frames,       \* CAP_PROP_FRAME_COUNT
    fps,                \* CAP_PROP_FPS, in thousandths
    disk,               \* content of each checkpoint file
    \* inputs of the parallel call
    max_workers,        \* max_workers argument
    p_writer,           \* TRUE iff an output path was given
    \* process_video_with_parallel_frames
    p_pc,               \* position of the main thread
    p_frame_count,      \* frame_count
    frame_queue,        \* queue.Queue(maxsize = 2 * max_workers); None = sentinel
    unfinished_tasks,   \* frame_queue.unfinished_tasks
    result_queue,       \* queue.Queue()
    processed_results,  \* keys of the processed_results dict
    p_written,          \* frames handed to writer.write, in order
    p_processed_frames, \* stats['processed_frames']
    sentinels,          \* sentinels put so far by the shutdown loop
    queue_full_log,     \* frames for which "帧队列已满，跳过当前帧" was logged
    wpc,                \* position of each frame_processor thread
    wframe,             \* frame_index a frame_processor is working on
    \* process_video_file
    s_pc,               \* position of the call
    runs,               \* calls of process_video_file started so far
    video_path,         \* video_path argument
    s_writer,           \* TRUE iff an output path was given
    resume,             \* resume_from_checkpoint argument
    frame_skip,         \* frame_skip argument
    smart_skip,         \* smart_skip
    checkpoint_data,    \* result of the _load_checkpoint at the start
    effective_skip,     \* effective_skip
    start_frame,        \* start_frame
    frame_count,        \* frame_count
    cap_pos,            \* frames the reader has passed (CAP_PROP_POS_FRAMES)
    stats,              \* stats
    s_written,          \* frames handed to writer.write, in order
    detected,           \* frames given to recognize_faces_in_frame in this call
    annotated,          \* frames given to draw_face_annotations in this call
    last_save,          \* last _save_checkpoint of this call: arguments, file
    released,           \* TRUE once cap.release() and writer.release() ran
    callback_frames,    \* current_frame of each progress_info of this call
    over_limit,         \* periodic memory checks of this call that read a
                        \* usage above max_memory_usage
    exit_reason,        \* how the read loop ended
    result,             \* what the call returned
    \* recognize_faces_in_frame on one face
    r_pc,               \* "ready" before the face is resolved, "resolved" after
    r_match,            \* what _search_in_movie_scope returned
    r_face,             \* the recognition_result of the face
    \* recognize_faces_in_frame on one frame
    r_frame,            \* the frame the faces below were detected in
    r_faces,            \* faces: what detect_faces returned
    r_i,                \* faces the loop of line 344 has gone through
    r_results,          \* recognized_faces
    seen,               \* the faces detect_faces has returned in this run:
                        \* how many, how many with a match in scope, whose
    \* draw_face_annotations on one result
    label,              \* the label drawn, line 454
    \* draw_face_annotations on a frame and a list of results
    images,             \* the image buffers in memory, each as what was
                        \* painted on it, in order; images[1] is the frame
                        \* the calls are given
    d_results,          \* recognition_results, the list the calls are given
    returned_frames,    \* the buffer each call so far has returned
    text_renderer,      \* self.text_renderer: default_font_path, font_cache
    broken_fonts        \* the fonts with which ImageDraw.text raises here

flagVars == <<is_processing, should_stop>>
confVars == <<long_video_mode, movie_title, similarity_threshold, movie_actors,
             index>>
instVars == <<flagVars, confVars, checkpoint_file, last_progress>>
worldVars == <<total_frames, fps, disk>>
parInputs == <<max_workers, p_writer>>
parMain == <<p_pc, p_frame_count, p_written, p_processed_frames,
             processed_results, sentinels, queue_full_log>>
parQueues == <<frame_queue, unfinished_tasks, result_queue>>
parWorkers == <<wpc, wframe>>
parVars == <<parInputs, parMain, parQueues, parWorkers>>
seqCall == <<video_path, s_writer, resume, frame_skip, smart_skip,
             checkpoint_data, effective_skip, start_frame>>
seqLoop == <<frame_count, cap_pos, stats, s_written, detected, annotated,
             last_save, released, callback_frames, over_limit>>
seqVars == <<s_pc, runs, seqCall, seqLoop, exit_reason, result>>
resVars == <<r_pc, r_match, r_face>>
drawVars == <<images, d_results, returned_frames, text_renderer, broken_fonts>>
faceVars == <<r_frame, r_faces, r_i, r_results, seen, label, drawVars>>
vars == <<instVars, worldVars, parVars, seqVars, resVars, faceVars>>

Workers == 1..max_workers

p_smart_skip == CalculateSmartSkip(long_video_mode, fps, total_frames)

QueueMaxSize == 2 * max_workers

\* ----------------------------------------------------------- Init
\* __init__, lines 39-54
InstInit ==
    /\ long_video_mode \in BOOLEAN
    /\ is_processing = FALSE
    /\ should_stop = FALSE
    /\ checkpoint_file = NoFile
    /\ last_progress = 0

\* no parallel call has been made
ParIdle ==
    /\ p_pc = "start"
    /\ p_frame_count = 0
    /\ frame_queue = <<>>
    /\ unfinished_tasks = 0
    /\ result_queue = <<>>
    /\ processed_results = {}
    /\ p_written = <<>>
    /\ p_processed_frames = 0
    /\ sentinels = 0
    /\ queue_full_log = {}
    /\ wpc = [w \in 1..MaxWorkers |-> "idle"]
    /\ wframe = [w \in 1..MaxWorkers |-> None]

\* the locals of process_video_file before a call is entered
SeqLocalsInit ==
    /\ video_path = CHOOSE v \in Videos : v.stem = "a"
    /\ s_writer = FALSE
    /\ resume = FALSE
    /\ frame_skip = 1
    /\ smart_skip = 1
    /\ checkpoint_data = NoCheckpoint
    /\ effective_skip = 1
    /\ start_frame = 0
    /\ frame_count = 0
    /\ cap_pos = 0
    /\ stats = FreshStats(0, 1)
    /\ s_written = <<>>
    /\ detected = {}
    /\ annotated = {}
    /\ last_save = NoSave
    /\ released = FALSE
    /\ callback_frames = {}
    /\ over_limit = 0
    /\ exit_reason = "none"
    /\ result = "none"

\* the locals are gone once the call is over
SeqLocalsCleared ==
    /\ video_path' = CHOOSE v \in Videos : v.stem = "a"
    /\ s_writer' = FALSE
    /\ resume' = FALSE
    /\ frame_skip' = 1
    /\ smart_skip' = 1
    /\ checkpoint_data' = NoCheckpoint
    /\ effective_skip' = 1
    /\ start_frame' = 0
    /\ frame_count' = 0
    /\ cap_pos' = 0
    /\ stats' = FreshStats(0, 1)
    /\ s_written' = <<>>
    /\ detected' = {}
    /\ annotated' = {}
    /\ last_save' = NoSave
    /\ released' = FALSE
    /\ callback_frames' = {}
    /\ over_limit' = 0
    /\ exit_reason' = "none"
    /\ result' = "none"

\* no face has been resolved; recognition_result of lines 353-363
Unrecognized ==
    [recognized |-> FALSE, actor_name |-> NoActor, similarity |-> 0,
     confidence |-> "low"]

\* nothing has been drawn
NoLabel == [name |-> "", hundredths |-> 0]

\* no face has been detected in this run
NoneSeen == [faces |-> 0, matched |-> 0, names |-> {}]

\* ChineseTextRenderer.__init__: no font found, nothing cached
NoFontPath == "None"
NoFont == "none"

\* no frame is being annotated
DrawIdle ==
    /\ images = <<>>
    /\ d_results = <<>>
    /\ returned_frames = <<>>
    /\ text_renderer = [default_font_path |-> NoFontPath, font_cache |-> NoFont]
    /\ broken_fonts = {}

ResolveIdle ==
    /\ r_pc = "ready"
    /\ r_match = <<>>
    /\ r_face = Unrecognized
    /\ r_frame = 0
    /\ r_faces = <<>>
    /\ r_i = 0
    /\ r_results = <<>>
    /\ seen = NoneSeen
    /\ label = NoLabel
    /\ DrawIdle

\* the vector database holds no entry: no roster
EmptyIndex ==
    /\ index = <<>>
    /\ movie_actors = {}

\* no sequential call has been made
SeqIdle ==
    /\ s_pc = "idle"
    /\ runs = 0
    /\ SeqLocalsInit

\* checkpoint records an earlier process can have left beside video "a"
\* when the video has at least two frames: frame 2 reached, one recognised
\* face, any configuration
StoredCheckpoints ==
    IF total_frames < 2 THEN {} ELSE
    {[kind |-> "record", current_frame |-> 2,
      stats |-> [FreshStats(total_frames, 1) EXCEPT
                    !.processed_frames = 2, !.faces_detected = 2,
                    !.faces_recognized = 1,
                    !.actors_found = ListOf(<<"x">>)],
      movie_title |-> m, similarity_threshold |-> t] :
        m \in Movies, t \in Thresholds}

InitPar ==
    /\ InstInit
    /\ movie_title = "A"
    /\ similarity_threshold = 6
    /\ total_frames \in 1..MaxFrames
    /\ fps \in FpsMilliSet
    /\ disk = [f \in CheckpointPaths |-> Absent]
    /\ max_workers \in 1..MaxWorkers
    /\ p_writer \in BOOLEAN
    /\ ParIdle
    /\ SeqIdle
    /\ EmptyIndex
    /\ ResolveIdle

InitSeq ==
    /\ InstInit
    /\ movie_title \in Movies
    /\ similarity_threshold \in Thresholds
    /\ total_frames \in 1..MaxFrames
    /\ fps \in FpsMilliSet
    /\ disk \in [CheckpointPaths -> {Absent} \cup StoredCheckpoints]
    /\ \A f \in CheckpointPaths : f.name # "a" => disk[f] = Absent
    /\ max_workers = 1
    /\ p_writer = FALSE
    /\ ParIdle
    /\ SeqIdle
    /\ EmptyIndex
    /\ ResolveIdle

\* ------------------------------------------- parallel pipeline: main
\* lines 869-870: try: self.is_processing = True
ParBegin ==
    /\ p_pc = "start"
    /\ is_processing' = TRUE
    /\ p_pc' = "begun"
    /\ UNCHANGED <<should_stop, confVars, resVars, faceVars, checkpoint_file, last_progress,
                   worldVars, seqVars, parInputs, p_frame_count, p_written,
                   p_processed_frames, processed_results, sentinels,
                   queue_full_log, parQueues, parWorkers>>

\* lines 871-876 and 1057-1061: cv2.VideoCapture cannot open the source;
\* the ValueError is caught, {'error': ...} is returned with
\* p_pc = "failed", and no frame_processor was submitted
ParOpenFails ==
    /\ p_pc = "begun"
    /\ should_stop' = FALSE
    /\ is_processing' = FALSE
    /\ p_pc' = "failed"
    /\ UNCHANGED <<confVars, resVars, faceVars, checkpoint_file, last_progress,
                   worldVars, seqVars, parInputs, p_frame_count, p_written,
                   p_processed_frames, processed_results, sentinels,
                   queue_full_log, parQueues, parWorkers>>

\* lines 871-946: should_stop = False, open the source, the queues,
\* executor.submit(frame_processor) x max_workers
ParStart ==
    /\ p_pc = "begun"
    /\ should_stop' = FALSE
    /\ wpc' = [w \in DOMAIN wpc |-> IF w \in Workers THEN "top" ELSE "idle"]
    /\ p_pc' = "read"
    /\ UNCHANGED <<is_processing, confVars, resVars, faceVars, checkpoint_file, last_progress,
                   worldVars, seqVars, parInputs, p_frame_count, p_written,
                   p_processed_frames, processed_results, sentinels,
                   queue_full_log, parQueues, wframe>>

\* lines 949-960: loop test, cap.read(), frame_count += 1, smart skip
ParRead ==
    /\ p_pc = "read"
    /\ IF should_stop \/ p_frame_count = total_frames
       THEN /\ p_pc' = "sentinel"
            /\ UNCHANGED <<p_frame_count, p_written>>
       ELSE /\ p_frame_count' = p_frame_count + 1
            /\ IF p_frame_count' % p_smart_skip # 0
               THEN /\ p_written' = IF p_writer
                                    THEN Append(p_written, p_frame_count')
                                    ELSE p_written
                    /\ p_pc' = "read"
               ELSE /\ p_written' = p_written
                    /\ p_pc' = "put"
    /\ UNCHANGED <<instVars, resVars, faceVars, worldVars, seqVars, parInputs, p_processed_frames, processed_results,
                   sentinels, queue_full_log, parQueues, parWorkers>>

\* line 964: frame_queue.put((frame_count, frame.copy()), timeout=2.0) succeeds
ParPut ==
    /\ p_pc = "put"
    /\ Len(frame_queue) < QueueMaxSize
    /\ frame_queue' = Append(frame_queue, p_frame_count)
    /\ unfinished_tasks' = unfinished_tasks + 1
    /\ p_pc' = "drain"
    /\ UNCHANGED <<instVars, resVars, faceVars, worldVars, seqVars, parInputs, p_frame_count, p_written,
                   p_processed_frames, processed_results, sentinels,
                   queue_full_log, result_queue, parWorkers>>

\* lines 965-967: the queue stayed full for the timeout: queue.Full, continue
ParPutTimeout ==
    /\ p_pc = "put"
    /\ Len(frame_queue) >= QueueMaxSize
    /\ queue_full_log' = queue_full_log \cup {p_frame_count}
    /\ p_pc' = "read"
    /\ UNCHANGED <<instVars, resVars, faceVars, worldVars, seqVars, parInputs, p_frame_count, p_written,
                   p_processed_frames, processed_results, sentinels,
                   parQueues, parWorkers>>

\* lines 970-985: one turn of "while not result_queue.empty()"
ParDrain ==
    /\ p_pc = "drain"
    /\ result_queue # <<>>
    /\ processed_results' = processed_results \cup {Head(result_queue)}
    /\ result_queue' = Tail(result_queue)
    /\ p_processed_frames' = p_processed_frames + 1
    /\ UNCHANGED <<instVars, resVars, faceVars, worldVars, seqVars, parInputs, p_pc, p_frame_count, p_written,
                   sentinels, queue_full_log, frame_queue, unfinished_tasks,
                   parWorkers>>

\* the keys of processed_results the in-loop writer lets through (line 990)
Writable(keys, count, workers) ==
    {i \in keys : i <= count - workers}

\* lines 987-992: result queue seen empty, then the sorted write-out
ParWrite ==
    /\ p_pc = "drain"
    /\ result_queue = <<>>
    /\ LET out == Writable(processed_results, p_frame_count, max_workers)
       IN IF p_writer
          THEN /\ p_written' = p_written \o SortedSeq(out)
               /\ processed_results' = processed_results \ out
          ELSE UNCHANGED <<p_written, processed_results>>
    /\ p_pc' = "read"
    /\ UNCHANGED <<instVars, resVars, faceVars, worldVars, seqVars, parInputs, p_frame_count, p_processed_frames,
                   sentinels, queue_full_log, parQueues, parWorkers>>

\* lines 1024-1026: one frame_queue.put(None) of the shutdown loop (blocking)
ParSentinel ==
    /\ p_pc = "sentinel"
    /\ sentinels < max_workers
    /\ Len(frame_queue) < QueueMaxSize
    /\ frame_queue' = Append(frame_queue, None)
    /\ unfinished_tasks' = unfinished_tasks + 1
    /\ sentinels' = sentinels + 1
    /\ p_pc' = IF sentinels' = max_workers THEN "join" ELSE "sentinel"
    /\ UNCHANGED <<instVars, resVars, faceVars, worldVars, seqVars, parInputs, p_frame_count, p_written,
                   p_processed_frames, processed_results, queue_full_log,
                   result_queue, parWorkers>>

\* lines 1028-1055: frame_queue.join() returns, the remaining results are
\* collected and written in sorted order, reader and writer are released,
\* the statistics are returned (finally: is_processing = False)
ParJoinFlush ==
    /\ p_pc = "join"
    /\ unfinished_tasks = 0
    /\ LET rest == processed_results \cup Range(result_queue)
       IN /\ processed_results' = rest
          /\ p_written' = IF p_writer THEN p_written \o SortedSeq(rest)
                          ELSE p_written
    /\ result_queue' = <<>>
    /\ is_processing' = FALSE
    /\ p_pc' = "done"
    /\ UNCHANGED <<should_stop, confVars, resVars, faceVars, checkpoint_file, last_progress,
                   worldVars, seqVars, parInputs, p_frame_count,
                   p_processed_frames, sentinels, queue_full_log, frame_queue,
                   unfinished_tasks, parWorkers>>

\* ----------------------------------------- parallel pipeline: workers
\* line 915: while not self.should_stop
WorkerTop(w) ==
    /\ wpc[w] = "top"
    /\ wpc' = [wpc EXCEPT ![w] = IF should_stop THEN "exited" ELSE "get"]
    /\ UNCHANGED <<instVars, resVars, faceVars, worldVars, seqVars, parInputs, parMain, parQueues, wframe>>

\* lines 917-921: frame_queue.get(timeout=1.0) returns an item
WorkerGet(w) ==
    /\ wpc[w] = "get"
    /\ frame_queue # <<>>
    /\ frame_queue' = Tail(frame_queue)
    /\ IF Head(frame_queue) = None
       THEN /\ wpc' = [wpc EXCEPT ![w] = "exited"]
            /\ wframe' = wframe
       ELSE /\ wpc' = [wpc EXCEPT ![w] = "proc"]
            /\ wframe' = [wframe EXCEPT ![w] = Head(frame_queue)]
    /\ UNCHANGED <<instVars, resVars, faceVars, worldVars, seqVars, parInputs, parMain, unfinished_tasks,
                   result_queue>>

\* lines 930-931: queue.Empty after the timeout, continue
WorkerGetTimeout(w) ==
    /\ wpc[w] = "get"
    /\ frame_queue = <<>>
    /\ wpc' = [wpc EXCEPT ![w] = "top"]
    /\ UNCHANGED <<instVars, resVars, faceVars, worldVars, seqVars, parInputs, parMain, parQueues, wframe>>

\* lines 923-928: recognise, annotate, result_queue.put, task_done
WorkerProcess(w) ==
    /\ wpc[w] = "proc"
    /\ result_queue' = Append(result_queue, wframe[w])
    /\ unfinished_tasks' = unfinished_tasks - 1
    /\ wpc' = [wpc EXCEPT ![w] = "top"]
    /\ wframe' = [wframe EXCEPT ![w] = None]
    /\ UNCHANGED <<instVars, resVars, faceVars, worldVars, seqVars, parInputs, parMain, frame_queue>>

\* lines 932-934: draw_face_annotations raises, the thread logs and breaks
WorkerFail(w) ==
    /\ wpc[w] = "proc"
    /\ wpc' = [wpc EXCEPT ![w] = "exited"]
    /\ wframe' = [wframe EXCEPT ![w] = None]
    /\ UNCHANGED <<instVars, resVars, faceVars, worldVars, seqVars, parInputs, parMain, parQueues>>

\* lines 839-842: stop_processing(), called from another thread
StopProcessing ==
    /\ is_processing
    /\ ~should_stop
    /\ should_stop' = TRUE
    /\ UNCHANGED <<is_processing, confVars, resVars, faceVars, checkpoint_file, last_progress,
                   worldVars, parVars, seqVars>>

\* ParJoinFlush is not a disjunct of NextPar: its guard is false in every
\* reachable state (JoinBlocked below), the main thread stays in the join.
NextPar ==
    \/ ParBegin
    \/ ParOpenFails
    \/ ParStart
    \/ ParRead
    \/ ParPut
    \/ ParPutTimeout
    \/ ParDrain
    \/ ParWrite
    \/ ParSentinel
    \/ \E w \in Workers : WorkerTop(w)
    \/ \E w \in Workers : WorkerGet(w)
    \/ \E w \in Workers : WorkerGetTimeout(w)
    \/ \E w \in Workers : WorkerProcess(w)
    \/ \E w \in Workers : WorkerFail(w)
    \/ StopProcessing

SpecPar == InitPar /\ [][NextPar]_vars

\* videos with more frames than one worker and its queues hold at once
ParLongTotals == {5, 6}

\* a call with one worker on such a video, with or without an output path
InitParLong ==
    /\ InstInit
    /\ movie_title = "A"
    /\ similarity_threshold = 6
    /\ total_frames \in ParLongTotals
    /\ fps \in FpsMilliSet
    /\ disk = [f \in CheckpointPaths |-> Absent]
    /\ max_workers = 1
    /\ p_writer \in BOOLEAN
    /\ ParIdle
    /\ SeqIdle
    /\ EmptyIndex
    /\ ResolveIdle

SpecParLong == InitParLong /\ [][NextPar]_vars

\* --------------------------------------------- sequential pipeline
\* detection results of one frame: no face, an unrecognised face, or a
\* recognised actor per face (recognize_faces_in_frame, lines 325-392)
FrameResults == {<<>>} \cup {<<a>> : a \in Actors \cup {NoActor}}

Recognized(res) == {i \in DOMAIN res : res[i] # NoActor}

\* lines 665-672: the periodic memory check; usage is what
\* _should_gc_collect() reads, after what _check_memory_usage() reads once
\* the collection ran
\* lines 664-671 with the warning counted beside the collection, not in it
MemoryCheckedWarnsAlone(st, count, usage, after) ==
    IF count % MemoryCheckInterval = 0
    THEN [st EXCEPT !.gc_collections = IF ShouldGcCollect(FALSE, usage)
                                       THEN @ + 1 ELSE @,
                    !.memory_warnings = IF after > MemoryWarnLevel
                                        THEN @ + 1 ELSE @]
    ELSE st

MemoryChecked(st, count, usage, after) ==
    IF count % MemoryCheckInterval = 0 /\ ShouldGcCollect(FALSE, usage)
    THEN [st EXCEPT !.gc_collections = @ + 1,
                    !.memory_warnings = IF after > MemoryWarnLevel
                                        THEN @ + 1 ELSE @]
    ELSE st

\* the periodic checks that read a usage above the limit, counted apart
\* from the statistics
OverLimitCounted(n, count, usage) ==
    IF count % MemoryCheckInterval = 0 /\ usage > MaxMemoryUsage
    THEN n + 1 ELSE n

\* lines 678-684 when no .add raises: actors_found is a set, or no face of
\* the frame is recognised and actors_found is left alone
StatsUpdated(st, res) ==
    [st EXCEPT !.processed_frames = @ + 1,
               !.faces_detected = @ + Len(res),
               !.faces_recognized = @ + Cardinality(Recognized(res)),
               !.actors_found =
                    IF Recognized(res) = {} THEN @
                    ELSE SetOf(@.elems \cup {res[i] : i \in Recognized(res)})]

\* lines 678-684 when actors_found is a list: the first recognised face
\* raises AttributeError at .add, after the counters were increased
StatsAtAddError(st, res) ==
    [st EXCEPT !.processed_frames = @ + 1,
               !.faces_detected = @ + Len(res),
               !.faces_recognized = @ + 1]

AddRaises(st, res) == st.actors_found.kind = "list" /\ Recognized(res) # {}

\* lines 695-703; progress - _last_progress >= percentage_interval, with
\* progress = count / total * 100 and percentage_interval =
\* max(0.5, 100 / total * 50), both sides times 2 * total; last is the frame
\* _last_progress was computed from (every source here has total frames)
ShouldUpdateProgress(count, total, fpsMilli, last) ==
    \/ count % ProgressInterval(fpsMilli) = 0
    \/ 200 * (count - last) >= Max2(total, 10000)
    \/ count = total

\* lines 583-584: try: self.is_processing = True
SeqBegin ==
    /\ s_pc \in {"idle", "returned"}
    /\ runs < MaxRuns
    /\ is_processing' = TRUE
    /\ s_pc' = "begun"
    /\ runs' = runs + 1
    /\ SeqLocalsCleared
    /\ UNCHANGED <<should_stop, confVars, resVars, faceVars, checkpoint_file, last_progress,
                   worldVars, parVars>>

\* lines 585-649: should_stop = False, checkpoint load, source and writer
\* opened, skip rate, statistics, seek
SeqStart(v, resume_from_checkpoint, skip, output) ==
    /\ s_pc = "begun"
    /\ should_stop' = FALSE
    /\ video_path' = v
    /\ s_writer' = output
    /\ resume' = resume_from_checkpoint
    /\ checkpoint_data' =
            IF resume_from_checkpoint
            THEN LoadCheckpoint(disk[CheckpointPath(v)], movie_title,
                                similarity_threshold)
            ELSE NoCheckpoint
    /\ frame_skip' = skip
    /\ smart_skip' = CalculateSmartSkip(long_video_mode, fps, total_frames)
    /\ effective_skip' = EffectiveSkip(skip, smart_skip')
    /\ IF checkpoint_data' # NoCheckpoint
       THEN /\ stats' = checkpoint_data'.stats
            /\ start_frame' = checkpoint_data'.current_frame
       ELSE /\ stats' = FreshStats(total_frames, effective_skip')
            /\ start_frame' = 0
    /\ cap_pos' = IF start_frame' > 0 THEN start_frame' ELSE 0
    /\ frame_count' = start_frame'
    /\ s_written' = <<>>
    /\ detected' = {}
    /\ annotated' = {}
    /\ last_save' = NoSave
    /\ released' = FALSE
    /\ callback_frames' = {}
    /\ over_limit' = 0
    /\ exit_reason' = "none"
    /\ result' = "none"
    /\ s_pc' = "loop"
    /\ UNCHANGED <<is_processing, confVars, resVars, faceVars, checkpoint_file, last_progress,
                   worldVars, parVars, runs>>

\* lines 651-662: one turn of the read loop on a frame the skip rate passes by
SeqSkipFrame ==
    /\ s_pc = "loop"
    /\ LoopContinues(should_stop)
    /\ cap_pos < total_frames
    /\ IsSkipped(frame_count + 1, effective_skip)
    /\ cap_pos' = cap_pos + 1
    /\ frame_count' = frame_count + 1
    /\ s_written' = IF s_writer THEN Append(s_written, cap_pos + 1)
                    ELSE s_written
    /\ UNCHANGED <<instVars, resVars, faceVars, worldVars, parVars, s_pc, runs, seqCall, stats,
                   detected, annotated, last_save, released, callback_frames,
                   over_limit, exit_reason, result>>

\* lines 651-744: one turn of the read loop on a processed frame
SeqFrame(res, usage, after) ==
    /\ s_pc = "loop"
    /\ LoopContinues(should_stop)
    /\ cap_pos < total_frames
    /\ ~IsSkipped(frame_count + 1, effective_skip)
    /\ cap_pos' = cap_pos + 1
    /\ frame_count' = frame_count + 1
    /\ detected' = detected \cup {frame_count'}
    /\ over_limit' = OverLimitCounted(over_limit, frame_count', usage)
    /\ LET checked == MemoryChecked(stats, frame_count', usage, after)
       IN IF AddRaises(checked, res)
          THEN \* lines 771-775: except Exception, return {'error': ...}
               /\ stats' = StatsAtAddError(checked, res)
               /\ s_pc' = "returned"
               /\ result' = OnException
               /\ exit_reason' = "exception"
               /\ is_processing' = FALSE
               /\ UNCHANGED <<s_written, annotated, last_save, last_progress,
                              checkpoint_file, disk, callback_frames>>
          ELSE /\ stats' = StatsUpdated(checked, res)
               /\ annotated' = IF res # <<>>
                                THEN annotated \cup {frame_count'}
                                ELSE annotated
               /\ s_written' = IF s_writer THEN Append(s_written, cap_pos + 1)
                               ELSE s_written
               /\ IF ShouldUpdateProgress(frame_count', total_frames, fps,
                                          last_progress)
                  THEN /\ callback_frames' = callback_frames \cup {frame_count'}
                       /\ last_progress' = frame_count'
                       /\ IF /\ frame_count' % CheckpointInterval(fps) = 0
                             /\ long_video_mode
                          THEN \* _save_checkpoint, lines 174-196
                               /\ checkpoint_file' =
                                    IF checkpoint_file = NoFile
                                    THEN CheckpointPath(video_path)
                                    ELSE checkpoint_file
                               /\ disk' = [disk EXCEPT ![checkpoint_file'] =
                                    SavedFile(frame_count', stats', movie_title,
                                              similarity_threshold)]
                               /\ last_save' = [kind |-> "save",
                                                current_frame |-> frame_count',
                                                stats |-> stats',
                                                file |-> checkpoint_file']
                          ELSE UNCHANGED <<checkpoint_file, disk, last_save>>
                  ELSE UNCHANGED <<last_progress, checkpoint_file, disk,
                                   last_save, callback_frames>>
               /\ UNCHANGED <<s_pc, result, exit_reason, is_processing>>
    /\ UNCHANGED <<should_stop, confVars, resVars, faceVars, total_frames, fps, parVars, runs,
                   seqCall, released>>

\* where a processed frame can raise outside recognize_faces_in_frame:
\* draw_face_annotations (lines 403-483, no handler) and the caller's
\* progress_callback (line 732)
FrameFaults == {"annotate", "callback"}

\* lines 651-735 and 771-775: a turn of the read loop in which the
\* annotation or the progress callback raises; the read loop has no handler
\* of its own, so the exception reaches the except of the call
SeqFrameRaises(res, usage, after, at) ==
    /\ s_pc = "loop"
    /\ LoopContinues(should_stop)
    /\ cap_pos < total_frames
    /\ ~IsSkipped(frame_count + 1, effective_skip)
    /\ ~AddRaises(MemoryChecked(stats, frame_count + 1, usage, after), res)
    /\ at = "annotate" => res # <<>>
    /\ at = "callback" =>
            ShouldUpdateProgress(frame_count + 1, total_frames, fps,
                                 last_progress)
    /\ cap_pos' = cap_pos + 1
    /\ frame_count' = frame_count + 1
    /\ detected' = detected \cup {frame_count'}
    /\ over_limit' = OverLimitCounted(over_limit, frame_count', usage)
    /\ stats' = StatsUpdated(MemoryChecked(stats, frame_count', usage, after),
                             res)
    /\ annotated' = IF at = "callback" /\ res # <<>>
                     THEN annotated \cup {frame_count'}
                     ELSE annotated
    /\ s_written' = IF at = "callback" /\ s_writer
                     THEN Append(s_written, cap_pos + 1)
                     ELSE s_written
    /\ callback_frames' = IF at = "callback"
                           THEN callback_frames \cup {frame_count'}
                           ELSE callback_frames
    /\ s_pc' = "returned"
    /\ result' = OnException
    /\ exit_reason' = "frame_exception"
    /\ is_processing' = FALSE
    /\ UNCHANGED <<should_stop, confVars, resVars, faceVars, checkpoint_file, last_progress,
                   worldVars, parVars, runs, seqCall, last_save, released>>

\* lines 585-596 and 771-775: cv2.VideoCapture cannot open the source,
\* ValueError is raised before anything is read and caught by the call
SeqOpenFails(v, resume_from_checkpoint, skip, output) ==
    /\ s_pc = "begun"
    /\ should_stop' = FALSE
    /\ video_path' = v
    /\ s_writer' = output
    /\ resume' = resume_from_checkpoint
    /\ frame_skip' = skip
    /\ checkpoint_data' =
            IF resume_from_checkpoint
            THEN LoadCheckpoint(disk[CheckpointPath(v)], movie_title,
                                similarity_threshold)
            ELSE NoCheckpoint
    /\ s_pc' = "returned"
    /\ result' = OnException
    /\ exit_reason' = "open_failed"
    /\ is_processing' = FALSE
    /\ UNCHANGED <<confVars, resVars, faceVars, checkpoint_file, last_progress, worldVars,
                   parVars, runs, smart_skip, effective_skip, start_frame,
                   seqLoop>>

\* lines 751-758: the forced collection, processing_time, and
\* list(stats['actors_found']); a set comes out in some order
Finalized(st) ==
    LET collected ==
            [st EXCEPT !.gc_collections = IF ShouldGcCollect(TRUE, 0)
                                          THEN @ + 1 ELSE @,
                       !.processing_time = Elapsed]
    IN IF st.actors_found.kind = "set"
       THEN {[collected EXCEPT !.actors_found = ListOf(q)] :
                q \in Orderings(st.actors_found.elems)}
       ELSE {collected}

\* lines 760-766: the checkpoint file is unlinked when self.checkpoint_file
\* is set and the file exists
CheckpointCleaned(d, file) ==
    IF file # NoFile /\ d[file] # Absent
    THEN [d EXCEPT ![file] = Absent]
    ELSE d

\* lines 651-654, 746-769, 775: the loop ends on the stop flag or on the
\* exhausted source; release, forced collection, final statistics,
\* checkpoint clean-up, return
SeqFinish ==
    /\ s_pc = "loop"
    /\ ~LoopContinues(should_stop) \/ cap_pos >= total_frames
    /\ exit_reason' = IF should_stop THEN "stop" ELSE "exhausted"
    /\ released' = TRUE
    /\ stats' \in Finalized(stats)
    /\ disk' = CheckpointCleaned(disk, checkpoint_file)
    /\ result' = "stats"
    /\ is_processing' = FALSE
    /\ s_pc' = "returned"
    /\ UNCHANGED <<should_stop, confVars, resVars, faceVars, checkpoint_file, last_progress,
                   total_frames, fps, parVars, runs, seqCall, frame_count,
                   cap_pos, s_written, detected, annotated, last_save,
                   callback_frames, over_limit>>

\* the process is killed while the call runs; what it wrote stays on disk
Kill ==
    /\ s_pc = "loop"
    /\ s_pc' = "dead"
    /\ SeqLocalsCleared
    /\ UNCHANGED <<instVars, resVars, faceVars, worldVars, parVars, runs>>

\* a new VideoFaceRecognizer with the same arguments, lines 39-54
NewInstance ==
    /\ s_pc \in {"returned", "dead"}
    /\ runs < MaxRuns
    /\ is_processing' = FALSE
    /\ should_stop' = FALSE
    /\ checkpoint_file' = NoFile
    /\ last_progress' = 0
    /\ s_pc' = "idle"
    /\ SeqLocalsCleared
    /\ UNCHANGED <<confVars, resVars, faceVars, worldVars, parVars, runs>>

NextSeq ==
    \/ SeqBegin
    \/ \E v \in Videos, r \in BOOLEAN, skip \in 1..2, output \in BOOLEAN :
            SeqStart(v, r, skip, output)
    \/ SeqSkipFrame
    \/ \E res \in FrameResults, usage \in ReadingsAt(frame_count + 1),
          after \in ReadingsAt(frame_count + 1) :
            SeqFrame(res, usage, after)
    \/ SeqFinish
    \/ StopProcessing
    \/ Kill
    \/ NewInstance

SpecSeq == InitSeq /\ [][NextSeq]_vars

\* ------------------------------------- calls that fail, stop or complete
\* a recognizer without checkpoints beside the videos
InitCall ==
    /\ InstInit
    /\ movie_title = "A"
    /\ similarity_threshold = 6
    /\ total_frames \in 1..MaxFrames
    /\ fps \in FpsMilliSet
    /\ disk = [f \in CheckpointPaths |-> Absent]
    /\ max_workers = 1
    /\ p_writer = FALSE
    /\ ParIdle
    /\ SeqIdle
    /\ EmptyIndex
    /\ ResolveIdle

\* calls of process_video_file on one recognizer: the source opens or not,
\* a frame's annotation or callback raises or not, stop_processing is
\* called or not
NextCall ==
    \/ SeqBegin
    \/ \E v \in Videos, r \in BOOLEAN, skip \in 1..2, output \in BOOLEAN :
            SeqStart(v, r, skip, output)
    \/ \E v \in Videos, r \in BOOLEAN, skip \in 1..2, output \in BOOLEAN :
            SeqOpenFails(v, r, skip, output)
    \/ SeqSkipFrame
    \/ \E res \in FrameResults, usage \in ReadingsAt(frame_count + 1),
          after \in ReadingsAt(frame_count + 1) :
            SeqFrame(res, usage, after)
    \/ \E res \in FrameResults, usage \in ReadingsAt(frame_count + 1),
          after \in ReadingsAt(frame_count + 1), at \in FrameFaults :
            SeqFrameRaises(res, usage, after, at)
    \/ SeqFinish
    \/ StopProcessing

SpecCall == InitCall /\ [][NextCall]_vars

\* ------------------------------------------------ progress reports
\* videos long enough for the percentage rule of line 701 to act: of the
\* first 100 frames a fresh recognizer reports frame 50 by that rule
ProgressTotals == {100, 120}
ProgressFpsMilli == {25000, 30000}

\* a fresh recognizer and a video of 100 or 120 frames
InitProgress ==
    /\ InstInit
    /\ movie_title = "A"
    /\ similarity_threshold = 6
    /\ total_frames \in ProgressTotals
    /\ fps \in ProgressFpsMilli
    /\ disk = [f \in CheckpointPaths |-> Absent]
    /\ max_workers = 1
    /\ p_writer = FALSE
    /\ ParIdle
    /\ SeqIdle
    /\ EmptyIndex
    /\ ResolveIdle

\* the recognizer processes the video, then the same video again; no face
\* is on any frame and nobody asks to stop
NextProgress ==
    \/ SeqBegin
    \/ \E v \in Videos, skip \in 1..2 : SeqStart(v, FALSE, skip, FALSE)
    \/ SeqSkipFrame
    \/ \E usage \in ReadingsAt(frame_count + 1),
          after \in ReadingsAt(frame_count + 1) :
            SeqFrame(<<>>, usage, after)
    \/ SeqFinish

SpecProgress == InitProgress /\ [][NextProgress]_vars

\* --------------------------------------------- periodic memory checks
\* frame counts just before a periodic check, lines 665-666
GcStarts == {MemoryCheckInterval - 2, 2 * MemoryCheckInterval - 2}

\* the largest element of a non-empty set of numbers
MaxOf(S) == CHOOSE n \in S : \A m \in S : m <= n

\* a call of process_video_file at work on a video of a few hundred frames
\* at 1 frame per second, two frames before a periodic check: no checkpoint,
\* no writer, no face so far; each earlier check read a usage above the
\* limit, and one above the warning level after the collection, or not
InitGc ==
    /\ long_video_mode = FALSE
    /\ is_processing = TRUE
    /\ should_stop = FALSE
    /\ checkpoint_file = NoFile
    /\ movie_title = "A"
    /\ similarity_threshold = 6
    /\ fps = 1000
    /\ disk = [f \in CheckpointPaths |-> Absent]
    /\ max_workers = 1
    /\ p_writer = FALSE
    /\ ParIdle
    /\ EmptyIndex
    /\ ResolveIdle
    /\ s_pc = "loop"
    /\ runs = 1
    /\ video_path = CHOOSE v \in Videos : v.stem = "a"
    /\ s_writer = FALSE
    /\ resume = FALSE
    /\ frame_skip \in 1..2
    /\ smart_skip = 1
    /\ effective_skip = EffectiveSkip(frame_skip, smart_skip)
    /\ checkpoint_data = NoCheckpoint
    /\ start_frame = 0
    /\ frame_count \in GcStarts
    /\ cap_pos = frame_count
    /\ total_frames \in {frame_count + 2, frame_count + 3}
    /\ detected = {n \in 1..frame_count : ~IsSkipped(n, effective_skip)}
    /\ annotated = {}
    /\ s_written = <<>>
    /\ callback_frames = {n \in detected : n % ProgressInterval(fps) = 0}
    /\ last_progress = MaxOf(callback_frames)
    /\ over_limit \in 0..(frame_count \div MemoryCheckInterval)
    /\ \E warnings \in 0..over_limit :
            stats = [FreshStats(total_frames, effective_skip) EXCEPT
                        !.processed_frames = Cardinality(detected),
                        !.gc_collections = over_limit,
                        !.memory_warnings = warnings]
    /\ last_save = NoSave
    /\ released = FALSE
    /\ exit_reason = "none"
    /\ result = "none"

\* the call goes on to the end of the video or to a stop request
NextGc ==
    \/ SeqSkipFrame
    \/ \E res \in FrameResults, usage \in ReadingsAt(frame_count + 1),
          after \in ReadingsAt(frame_count + 1) :
            SeqFrame(res, usage, after)
    \/ SeqFinish
    \/ StopProcessing

SpecGc == InitGc /\ [][NextGc]_vars

\* ------------------------------------------- a source that cannot open
\* calls of either pipeline on one recognizer, one at a time, up to the
\* point where the source is opened
NextOpen ==
    \/ (p_pc \in {"start", "failed"} /\ SeqBegin)
    \/ \E v \in Videos, r \in BOOLEAN, skip \in 1..2, output \in BOOLEAN :
            SeqStart(v, r, skip, output)
    \/ \E v \in Videos, r \in BOOLEAN, skip \in 1..2, output \in BOOLEAN :
            SeqOpenFails(v, r, skip, output)
    \/ (s_pc \in {"idle", "returned"} /\ ParBegin)
    \/ ParStart
    \/ ParOpenFails

SpecOpen == InitSeq /\ [][NextOpen]_vars

\* ------------------------------------------- skip rate on real durations
\* durations in minutes around the bands of _calculate_smart_skip
SkipMinutes == {10, 29, 30, 31, 45, 89, 90, 91, 100, 179, 180, 181, 200}

\* frame rates: 1, 25 and 29.97 frames per second
SkipFpsMilli == {1000, 25000, 29970}

\* frame_skip arguments
SkipRequests == 1..6

\* CAP_PROP_FRAME_COUNT of a video of that many minutes (exact for the
\* rates above), line 604 read backwards
FramesIn(minutes, fpsMilli) == (minutes * 60 * fpsMilli) \div 1000

\* a recognizer and a video of one of the durations, or one frame longer
InitSkip ==
    /\ InstInit
    /\ movie_title = "A"
    /\ similarity_threshold = 6
    /\ fps \in SkipFpsMilli
    /\ total_frames \in {FramesIn(m, fps) + e : m \in SkipMinutes, e \in {0, 1}}
    /\ disk = [f \in CheckpointPaths |-> Absent]
    /\ max_workers = 1
    /\ p_writer = FALSE
    /\ ParIdle
    /\ SeqIdle
    /\ EmptyIndex
    /\ ResolveIdle

\* one call of process_video_file, followed over its first MaxFrames frames
NextSkip ==
    \/ SeqBegin
    \/ \E v \in Videos, skip \in SkipRequests, output \in BOOLEAN :
            SeqStart(v, FALSE, skip, output)
    \/ (frame_count < MaxFrames /\ SeqSkipFrame)
    \/ \E res \in FrameResults, usage \in ReadingsAt(frame_count + 1),
          after \in ReadingsAt(frame_count + 1) :
            (frame_count < MaxFrames /\ SeqFrame(res, usage, after))

SpecSkip == InitSkip /\ [][NextSkip]_vars

\* ------------------------------------------------- scope resolver
\* similarities are in ten-thousandths; self.similarity_threshold is in tenths
ThresholdUnits(t) == t * 1000

\* top_k of the global search, line 244
TopKGlobal == 1

\* top_k of the movie-scoped search, line 254
TopKScoped == 50

\* min_similarity = 0.3 of the movie-scoped search, line 255
ScopedFloor == 3000

\* 0.001, line 275
TieWindow == 10

\* movie_title = None
NoTitle == "None"

\* str.lower() on the titles that occur
Lower(t) ==
    CASE t = "A" -> "a"
      [] t = "B" -> "b"
      [] t = "C" -> "c"
      [] OTHER -> t

\* order of the actor names under Python's string comparison
NameRank(a) ==
    CASE a = "P" -> 1
      [] a = "Q" -> 2
      [] a = "R" -> 3

\* the allow-list of _is_main_actor; "P" stands for a name on it
MainActors == {"P"}

\* _is_main_actor, lines 224-236
IsMainActor(a) == a \in MainActors

Entry(m, a, sim) == [movie_title |-> m, actor_name |-> a, similarity |-> sim]

\* index entries as seen from one face: movie "a" with three actors at 0.8000
\* and 0.8001 and one at 0.6000, 0.5999 and 0.2500, and two entries of
\* movie "B"
IndexEntries ==
    {Entry("a", x, sim) : x \in {"P", "Q", "R"}, sim \in {8000, 8001}}
        \cup {Entry("a", "Q", 6000), Entry("a", "Q", 5999),
              Entry("a", "Q", 2500),
              Entry("B", "Q", 8001), Entry("B", "R", 6000)}

\* entries of the index the resolver is followed on, besides the crowd
MaxIndex == 4

\* the sequences of at most n entries, nearest first
RECURSIVE Nearest(_)
Nearest(n) ==
    IF n = 0 THEN {<<>>}
    ELSE LET shorter == Nearest(n - 1)
             longest == {q \in shorter : Len(q) = n - 1}
             further == {pr \in longest \X IndexEntries :
                            \/ n = 1
                            \/ pr[2].similarity <= pr[1][n - 1].similarity}
         IN shorter \cup {Append(pr[1], pr[2]) : pr \in further}

\* entries of another movie nearer to the face than every entry above
Crowd(n) == [i \in 1..n |-> Entry("B", "Q", 9000)]

\* FaissVectorDatabase.search_similar on an exact index: the top_k nearest
SearchSimilar(idx, top_k) == SubSeq(idx, 1, Min2(top_k, Len(idx)))

\* search_similar_faces with a candidate equal to min_similarity dropped
SearchSimilarFacesStrict(idx, top_k, min_similarity) ==
    SelectSeq(SearchSimilar(idx, top_k),
              LAMBDA r : r.similarity > min_similarity)

\* VectorDatabaseManager.search_similar_faces, lines 538-565
SearchSimilarFaces(idx, top_k, min_similarity) ==
    SelectSeq(SearchSimilar(idx, top_k),
              LAMBDA r : r.similarity >= min_similarity)

\* the title test with the movie ignored
InAnyMovie(r, title) == TRUE

\* lines 93 and 263: movie_title.lower() == self.movie_title.lower()
InMovie(r, title) == Lower(r.movie_title) = Lower(title)

\* _get_movie_actors, lines 82-110: the actors of the entries of the movie
GetMovieActors(idx, title) ==
    {idx[i].actor_name : i \in {j \in DOMAIN idx : InMovie(idx[j], title)}}

\* line 240 with the roster ignored
ScopeActiveByTitle(title, roster) == title # NoTitle

\* line 240: a movie is given and its roster is not empty
ScopeActive(title, roster) == title # NoTitle /\ roster # {}

\* the sort key without the actor name
\* the sort of line 271 with the lowest similarity first
KeyBeforeAscending(a, b) ==
    \/ a.similarity < b.similarity
    \/ /\ a.similarity = b.similarity
       /\ NameRank(a.actor_name) < NameRank(b.actor_name)

KeyBeforeBySimilarity(a, b) == a.similarity > b.similarity

\* sort key (-similarity, actor_name), line 271: a sorts before b
KeyBefore(a, b) ==
    \/ a.similarity > b.similarity
    \/ /\ a.similarity = b.similarity
       /\ NameRank(a.actor_name) < NameRank(b.actor_name)

\* list.sort with that key, line 271: stable, so an element goes behind the
\* earlier elements it does not sort before
RECURSIVE SortedByKey(_)
SortedByKey(results) ==
    IF results = <<>> THEN <<>>
    ELSE LET n == Len(results)
             front == SortedByKey(SubSeq(results, 1, n - 1))
             e == results[n]
             k == Cardinality({i \in DOMAIN front : ~KeyBefore(e, front[i])})
         IN SubSeq(front, 1, k) \o <<e>> \o SubSeq(front, k + 1, n - 1)

Abs(x) == IF x < 0 THEN 0 - x ELSE x

\* same_similarity_results, line 275
SameSimilarity(results) ==
    SelectSeq(results,
              LAMBDA r : Abs(r.similarity - results[1].similarity) < TieWindow)

\* the keys of actor_scores in insertion order, lines 283-296
RECURSIVE ActorsInOrder(_)
ActorsInOrder(same) ==
    IF same = <<>> THEN <<>>
    ELSE LET front == ActorsInOrder(SubSeq(same, 1, Len(same) - 1))
             a == same[Len(same)].actor_name
         IN IF a \in Range(front) THEN front ELSE Append(front, a)

\* actor_scores[a]['results'], line 296
ActorResults(same, a) == SelectSeq(same, LAMBDA r : r.actor_name = a)

RECURSIVE SumSimilarity(_)
SumSimilarity(results) ==
    IF results = <<>> THEN 0
    ELSE results[1].similarity + SumSimilarity(Tail(results))

\* main_actor_bonus with every actor treated as a minor one
MainActorBonusNone(a) == 0

\* main_actor_bonus, line 303
MainActorBonus(a) == IF IsMainActor(a) THEN 10 ELSE 0

\* total_score of lines 303-307 times 1000 * face_count, an integer:
\* (bonus + min(face_count, 5)) + (similarity_sum / face_count) * 10
ScoreTimesCount(same, a) ==
    LET mine == ActorResults(same, a)
    IN (MainActorBonus(a) + Min2(Len(mine), 5)) * 1000 * Len(mine)
          + SumSimilarity(mine)

\* total_score of a above total_score of b
ScoreAbove(same, a, b) ==
    ScoreTimesCount(same, a) * Len(ActorResults(same, b))
        > ScoreTimesCount(same, b) * Len(ActorResults(same, a))

\* the loop of lines 298-311 over the first n keys: best_actor; the first key
\* beats best_score = -1, a later one must be strictly above
RECURSIVE BestActor(_, _)
BestActor(same, n) ==
    LET names == ActorsInOrder(same)
    IN IF n = 1 THEN names[1]
       ELSE LET best == BestActor(same, n - 1)
            IN IF ScoreAbove(same, names[n], best) THEN names[n] ELSE best

\* _search_in_movie_scope, lines 238-323; threshold in ten-thousandths
SearchInMovieScope(idx, title, roster, threshold) ==
    IF ~ScopeActive(title, roster)
    THEN SearchSimilarFaces(idx, TopKGlobal, threshold)
    ELSE LET all_results == SearchSimilarFaces(idx, TopKScoped, ScopedFloor)
             results == SelectSeq(all_results,
                            LAMBDA r : /\ InMovie(r, title)
                                       /\ r.similarity >= threshold)
         IN IF Len(results) > 1
            THEN LET sorted == SortedByKey(results)
                     same == SameSimilarity(sorted)
                 IN IF Len(same) > 1
                    THEN SubSeq(ActorResults(same,
                                    BestActor(same, Len(ActorsInOrder(same)))),
                                1, 1)
                    ELSE SubSeq(sorted, 1, 1)
            ELSE results

\* _get_confidence_level with both boundaries in the lower tier
GetConfidenceLevelStrict(similarity) ==
    IF similarity > 8500 THEN "high"
    ELSE IF similarity > 7000 THEN "medium"
    ELSE "low"

\* _get_confidence_level, lines 394-401 (0.85 and 0.7 in ten-thousandths)
GetConfidenceLevel(similarity) ==
    IF similarity >= 8500 THEN "high"
    ELSE IF similarity >= 7000 THEN "medium"
    ELSE "low"

\* recognition_result of lines 353-380
RecognitionResult(match, title) ==
    IF match = <<>> THEN Unrecognized
    ELSE [recognized |-> TRUE,
          actor_name |-> match[1].actor_name,
          similarity |-> match[1].similarity,
          confidence |-> GetConfidenceLevel(match[1].similarity),
          movie_source |-> match[1].movie_title,
          movie_scoped |-> title # NoTitle,
          target_movie |-> title]

\* titles a recognizer is built with: none, a movie of the index in another
\* case, a movie the index does not hold
ResolveTitles == {NoTitle, "A", "C"}

ResolveThresholds == {2, 6, 8}

\* a recognizer over an index, with or without a crowd of TopKScoped nearer
\* entries of another movie, before it resolves a face
InitResolve ==
    /\ long_video_mode = FALSE
    /\ is_processing = FALSE
    /\ should_stop = FALSE
    /\ checkpoint_file = NoFile
    /\ last_progress = 0
    /\ movie_title \in ResolveTitles
    /\ similarity_threshold \in ResolveThresholds
    /\ index \in {Crowd(n) \o q : n \in {0, TopKScoped}, q \in Nearest(MaxIndex)}
    /\ movie_actors = IF movie_title # NoTitle
                      THEN GetMovieActors(index, movie_title)
                      ELSE {}
    /\ total_frames = 1
    /\ fps = 1000
    /\ disk = [f \in CheckpointPaths |-> Absent]
    /\ max_workers = 1
    /\ p_writer = FALSE
    /\ ParIdle
    /\ SeqIdle
    /\ ResolveIdle

\* lines 344-382: one detected face is resolved and its result built
Resolve ==
    /\ r_pc = "ready"
    /\ r_match' = SearchInMovieScope(index, movie_title, movie_actors,
                                     ThresholdUnits(similarity_threshold))
    /\ r_face' = RecognitionResult(r_match', movie_title)
    /\ r_pc' = "resolved"
    /\ UNCHANGED <<instVars, worldVars, parVars, seqVars, faceVars>>

NextResolve == Resolve

SpecResolve == InitResolve /\ [][NextResolve]_vars

\* similarities on both sides of the two tier boundaries, in
\* ten-thousandths: 8499 and 6999 are the largest values below them
TierSimilarities == {9000, 8501, 8500, 8499, 7500, 7001, 7000, 6999, 6000}

\* a database holding one face, at each of the similarities above
InitTier ==
    /\ long_video_mode = FALSE
    /\ is_processing = FALSE
    /\ should_stop = FALSE
    /\ checkpoint_file = NoFile
    /\ last_progress = 0
    /\ movie_title \in ResolveTitles
    /\ similarity_threshold \in ResolveThresholds
    /\ index \in {<<Entry(m, a, sim)>> :
                    m \in {"a", "B"}, a \in {"P", "Q"},
                    sim \in TierSimilarities}
    /\ movie_actors = IF movie_title # NoTitle
                      THEN GetMovieActors(index, movie_title)
                      ELSE {}
    /\ total_frames = 1
    /\ fps = 1000
    /\ disk = [f \in CheckpointPaths |-> Absent]
    /\ max_workers = 1
    /\ p_writer = FALSE
    /\ ParIdle
    /\ SeqIdle
    /\ ResolveIdle

NextTier == Resolve

SpecTier == InitTier /\ [][NextTier]_vars

\* ------------------------------------------- the faces of a frame
\* what the index returns, nearest first, for the faces of the model video:
\* actor P of movie "a" at 0.95, the same at 0.80, actor Q at 0.95, nobody
\* above 0.40, and an actor of another movie at 0.95
ViewP == <<Entry("a", "P", 9500), Entry("a", "Q", 4000), Entry("B", "R", 4000)>>
ViewNear ==
    <<Entry("a", "P", 8000), Entry("a", "Q", 4000), Entry("B", "R", 4000)>>
ViewQ == <<Entry("a", "Q", 9500), Entry("a", "P", 4000), Entry("B", "R", 4000)>>
ViewFar == <<Entry("a", "P", 4000), Entry("a", "Q", 4000), Entry("B", "R", 4000)>>
ViewOther ==
    <<Entry("B", "R", 9500), Entry("a", "P", 4000), Entry("a", "Q", 4000)>>

FaceViews == {ViewP, ViewNear, ViewQ, ViewFar, ViewOther}

\* a view of an index that also holds TopKScoped entries of another movie
\* at 0.90 to every face of the video
Crowded(view) ==
    SelectSeq(view, LAMBDA r : r.similarity > Crowd(1)[1].similarity)
        \o Crowd(TopKScoped)
        \o SelectSeq(view, LAMBDA r : r.similarity <= Crowd(1)[1].similarity)

\* a detected face: its view of the index, and what goes wrong while it is
\* handled: nothing, the index query raises, or the handling of the face
\* itself raises (a face_info without 'embedding' or 'bbox', lines 347, 355)
DetectedFaces ==
    {[view |-> v, fault |-> "none"] : v \in FaceViews}
        \cup {[view |-> ViewP, fault |-> f] : f \in {"query", "face"}}

\* what detect_faces returns for a frame: up to two faces
FrameFaces ==
    {<<>>} \cup {<<a>> : a \in DetectedFaces}
           \cup {<<a, b>> : a \in DetectedFaces, b \in DetectedFaces}

\* database.search_similar, vector_database.py lines 160-191 and 388-415,
\* under search_similar_faces, lines 538-565: an exception inside the query
\* is logged and [] is returned
Answer(view, fault) == IF fault = "query" THEN <<>> ELSE view

\* the index query raising into the handler of line 384
FaceOutcomeQueryEscapes(face_id, fault, view, title, roster, threshold) ==
    IF fault \in {"face", "query"} THEN <<>>
    ELSE <<[face_id |-> face_id] @@
           RecognitionResult(
               SearchInMovieScope(Answer(view, fault), title, roster,
                                  threshold), title)>>

\* lines 344-386, one face: what is appended to recognized_faces; nothing
\* when the handling of the face raised (except Exception: continue)
FaceOutcome(face_id, fault, view, title, roster, threshold) ==
    IF fault = "face" THEN <<>>
    ELSE <<[face_id |-> face_id] @@
           RecognitionResult(
               SearchInMovieScope(Answer(view, fault), title, roster,
                                  threshold), title)>>

\* a handler of line 384 that gives up the remaining faces
NextFaceBreaks(i, n, raised) == IF raised THEN n ELSE i + 1

\* lines 344 and 384-386: the loop goes on to the next face, after an
\* exception as well
NextFace(i, n, raised) == i + 1

\* the index of this recognizer as a face sees it
ViewOf(face) == IF Len(index) > Len(ViewFar) THEN Crowded(face.view)
                ELSE face.view

\* the entries of a view within the scope and at or above the threshold
InScopeMatchesOf(view, title, roster, threshold) ==
    SelectSeq(view, LAMBDA r : /\ ScopeActive(title, roster) => InMovie(r, title)
                               /\ r.similarity >= threshold)

FacesWithMatch(faces) ==
    {i \in DOMAIN faces :
        InScopeMatchesOf(ViewOf(faces[i]), movie_title, movie_actors,
                         ThresholdUnits(similarity_threshold)) # <<>>}

\* the faces detected so far in the run, counted from what detect_faces
\* returned and what the index holds
SeenWith(sn, faces) ==
    [faces |-> sn.faces + Len(faces),
     matched |-> sn.matched + Cardinality(FacesWithMatch(faces)),
     names |-> sn.names \cup
        {InScopeMatchesOf(ViewOf(faces[i]), movie_title, movie_actors,
                          ThresholdUnits(similarity_threshold))[1].actor_name :
            i \in FacesWithMatch(faces)}]

\* line 337: faces = self.face_processor.detect_faces(frame), for the next
\* frame of the read loop; lines 339-340: no face, return []
DetectFaces(faces) ==
    /\ s_pc = "loop"
    /\ LoopContinues(should_stop)
    /\ cap_pos < total_frames
    /\ ~IsSkipped(frame_count + 1, effective_skip)
    /\ r_pc \in {"ready", "returned"}
    /\ r_frame = frame_count
    /\ r_frame' = frame_count + 1
    /\ r_faces' = faces
    /\ r_i' = 0
    /\ r_results' = <<>>
    /\ r_pc' = IF faces = <<>> THEN "returned" ELSE "faces"
    /\ seen' = SeenWith(seen, faces)
    /\ UNCHANGED <<instVars, worldVars, parVars, seqVars, r_match, r_face,
                   label, drawVars>>

\* lines 344-386: one turn of the loop over the faces
FaceStep ==
    /\ r_pc = "faces"
    /\ r_i < Len(r_faces)
    /\ LET face == r_faces[r_i + 1]
       IN /\ r_results' = r_results \o
                FaceOutcome(r_i, face.fault, ViewOf(face), movie_title,
                            movie_actors, ThresholdUnits(similarity_threshold))
          /\ r_i' = NextFace(r_i, Len(r_faces), face.fault = "face")
    /\ r_pc' = IF r_i' >= Len(r_faces) THEN "returned" ELSE "faces"
    /\ UNCHANGED <<instVars, worldVars, parVars, seqVars, r_match, r_face,
                   r_frame, r_faces, seen, label, drawVars>>

\* what lines 678-684 read of the results of a frame
NamesOf(results) ==
    [i \in DOMAIN results |-> IF results[i].recognized
                              THEN results[i].actor_name ELSE NoActor]

\* lines 675-744 on the results recognize_faces_in_frame returned (line 388)
FrameStep(usage, after) ==
    /\ r_pc = "returned"
    /\ r_frame = frame_count + 1
    /\ SeqFrame(NamesOf(r_results), usage, after)

\* a recognizer, with or without a target movie, over an index with or
\* without the entries of the other movie, and a video of up to three frames
InitFrame ==
    /\ long_video_mode = FALSE
    /\ is_processing = FALSE
    /\ should_stop = FALSE
    /\ checkpoint_file = NoFile
    /\ last_progress = 0
    /\ movie_title \in {"A", NoTitle}
    /\ similarity_threshold = 6
    /\ index \in {ViewFar, Crowded(ViewFar)}
    /\ movie_actors = IF movie_title # NoTitle
                      THEN GetMovieActors(index, movie_title)
                      ELSE {}
    /\ total_frames \in 1..3
    /\ fps = 1000
    /\ disk = [f \in CheckpointPaths |-> Absent]
    /\ max_workers = 1
    /\ p_writer = FALSE
    /\ ParIdle
    /\ SeqIdle
    /\ ResolveIdle

\* one call of process_video_file with frame_skip 1, frame by frame and
\* face by face
NextFrame ==
    \/ (runs = 0 /\ SeqBegin)
    \/ \E output \in BOOLEAN :
            SeqStart(CHOOSE v \in Videos : v.stem = "a", FALSE, 1, output)
    \/ \E faces \in FrameFaces : DetectFaces(faces)
    \/ FaceStep
    \/ \E usage \in ReadingsAt(frame_count + 1),
          after \in ReadingsAt(frame_count + 1) : FrameStep(usage, after)
    \/ SeqFinish

SpecFrame == InitFrame /\ [][NextFrame]_vars

\* ------------------------------------------------- the label of a face
\* a Python dict is a record here: its keys are the DOMAIN
EmptyDict == [k \in {} |-> ""]

\* the metadata a result can carry: no 'metadata' key, {}, an empty
\* character, a character
MetadataForms ==
    {EmptyDict, [metadata |-> EmptyDict], [metadata |-> [character |-> ""]],
     [metadata |-> [character |-> "M"]]}

\* similarities in ten-thousandths, two of them half-way between two
\* hundredths
LabelSimilarities ==
    {6000, 8001, 5999, 8800, 9200, 9500, 9951, 7249, 8050, 9950}

\* the recognised results draw_face_annotations can be given
LabelResults ==
    {[recognized |-> TRUE, actor_name |-> a, similarity |-> sim] @@ m :
        a \in {"P", "Q"}, sim \in LabelSimilarities, m \in MetadataForms}

\* line 450 without the character name
DisplayNameActorOnly(res) == res.actor_name

\* lines 447-453: metadata = result.get('metadata', {}),
\* character_name = metadata.get('character', ''),
\* display_name = character_name if character_name else actor_name
DisplayName(res) ==
    LET metadata == IF "metadata" \in DOMAIN res THEN res.metadata
                    ELSE EmptyDict
        character_name == IF "character" \in DOMAIN metadata
                          THEN metadata.character ELSE ""
    IN IF character_name # "" THEN character_name ELSE res.actor_name

\* line 454, {similarity:.2f}: the nearest hundredth; a value half-way
\* between two hundredths goes to either, by its binary representation
TwoDecimals(sim) ==
    IF sim % 100 = 50 THEN {sim \div 100, sim \div 100 + 1}
    ELSE {(sim + 50) \div 100}

\* draw_face_annotations is given one result
InitLabel ==
    /\ InstInit
    /\ movie_title = "A"
    /\ similarity_threshold = 6
    /\ total_frames = 1
    /\ fps = 1000
    /\ disk = [f \in CheckpointPaths |-> Absent]
    /\ max_workers = 1
    /\ p_writer = FALSE
    /\ ParIdle
    /\ SeqIdle
    /\ EmptyIndex
    /\ r_pc = "resolved"
    /\ r_match = <<>>
    /\ r_face \in LabelResults \cup {Unrecognized}
    /\ r_frame = 0
    /\ r_faces = <<>>
    /\ r_i = 0
    /\ r_results = <<>>
    /\ seen = NoneSeen
    /\ label = NoLabel
    /\ DrawIdle

\* lines 446-454: the label of a recognised result
DrawLabel ==
    /\ r_pc = "resolved"
    /\ r_face.recognized
    /\ label' \in {[name |-> DisplayName(r_face), hundredths |-> h] :
                        h \in TwoDecimals(r_face.similarity)}
    /\ r_pc' = "drawn"
    /\ UNCHANGED <<instVars, worldVars, parVars, seqVars, r_match, r_face,
                   r_frame, r_faces, r_i, r_results, seen, drawVars>>

\* lines 467-473: an unrecognised face is labelled as unknown
DrawUnknown ==
    /\ r_pc = "resolved"
    /\ ~r_face.recognized
    /\ label' = [name |-> "unknown", hundredths |-> 0]
    /\ r_pc' = "drawn"
    /\ UNCHANGED <<instVars, worldVars, parVars, seqVars, r_match, r_face,
                   r_frame, r_faces, r_i, r_results, seen, drawVars>>

NextLabel == DrawLabel \/ DrawUnknown

SpecLabel == InitLabel /\ [][NextLabel]_vars

\* ------------------------------------------------ the annotated frame
\* the buffer the caller passes as frame
InputFrame == 1

\* calls made with the same frame and the same results
DrawCalls == 2

\* the pixels of video frame n, nothing painted on them
Pixels(n) == <<[kind |-> "pixels", frame |-> n]>>

\* the metadata of a result: none, a character, a character with its own
\* colour and shape
DrawMetadata ==
    {EmptyDict, [metadata |-> [character |-> "M"]],
     [metadata |-> [character |-> "M", color_bgr |-> "red",
                    shape_type |-> "circle"]]}

\* one similarity of each confidence tier
DrawSimilarities == {9000, 7500, 6000}

\* the results recognize_faces_in_frame builds, lines 353-380
DrawResults ==
    {[recognized |-> TRUE, actor_name |-> "P", similarity |-> sim,
      confidence |-> GetConfidenceLevel(sim)] @@ m :
        sim \in DrawSimilarities, m \in DrawMetadata} \cup {Unrecognized}

WithBox(res, box) == res @@ [bbox |-> box]

\* lists of no, one or two results, each face with its own box
ResultLists ==
    {<<>>} \cup {<<WithBox(a, "b1")>> : a \in DrawResults}
           \cup {<<WithBox(a, "b1"), WithBox(b, "b2")>> :
                        a \in DrawResults, b \in DrawResults}

\* a renderer as __init__ or earlier calls left it: the font of the system
\* found or not, the font of size 18 cached or not
RendererStates ==
    {[default_font_path |-> p, font_cache |-> c] :
        p \in {NoFontPath, "font.ttc"}, c \in {NoFont, "truetype", "default"}}
        \ {[default_font_path |-> NoFontPath, font_cache |-> "truetype"]}

\* lines 421-439: the colour of the character, or the colour of the tier
FaceColor(res) ==
    LET metadata == IF "metadata" \in DOMAIN res THEN res.metadata
                    ELSE EmptyDict
    IN IF "color_bgr" \in DOMAIN metadata THEN metadata.color_bgr
       ELSE IF res.confidence = "high" THEN "green"
       ELSE IF res.confidence = "medium" THEN "orange"
       ELSE "yellow"

\* line 425: metadata.get('shape_type', 'rectangle')
ShapeType(res) ==
    LET metadata == IF "metadata" \in DOMAIN res THEN res.metadata
                    ELSE EmptyDict
    IN IF "shape_type" \in DOMAIN metadata THEN metadata.shape_type
       ELSE "rectangle"

\* _get_font, chinese_text_renderer.py lines 65-87: the cached font, or
\* the font of the system when it loads, or the built-in font
GetFont(renderer, load_ok) ==
    IF renderer.font_cache # NoFont THEN renderer.font_cache
    ELSE IF renderer.default_font_path # NoFontPath /\ load_ok
         THEN "truetype"
         ELSE "default"

\* annotated_frame = frame with no copy made
FrameCopyAlias(imgs, frame) == [images |-> imgs, frame |-> frame]

\* line 415, frame.copy(): a new buffer with the same pixels
FrameCopy(imgs, frame) ==
    [images |-> Append(imgs, imgs[frame]), frame |-> Len(imgs) + 1]

\* _draw_face_shape and cv2.rectangle paint on the buffer they are given
DrawFaceShape(imgs, frame, shape_type, color, box) ==
    [imgs EXCEPT ![frame] =
        Append(@, [kind |-> "shape", shape_type |-> shape_type,
                   color |-> color, bbox |-> box])]

\* draw_text_with_outline, chinese_text_renderer.py lines 179-228: the text
\* is drawn on a converted copy, which is returned; when drawing raises,
\* the image it was given is returned as it is
DrawTextWithOutline(imgs, frame, text, color, box, font, broken) ==
    IF font \in broken THEN [images |-> imgs, frame |-> frame]
    ELSE [images |-> Append(imgs,
                        Append(imgs[frame],
                               [kind |-> "text", text |-> text,
                                color |-> color, bbox |-> box,
                                font |-> font])),
          frame |-> Len(imgs) + 1]

\* lines 418-481: one turn of the loop over the results
AnnotateResult(imgs, frame, res, font, broken) ==
    IF res.recognized
    THEN DrawTextWithOutline(
            DrawFaceShape(imgs, frame, ShapeType(res), FaceColor(res),
                          res.bbox),
            frame,
            [name |-> DisplayName(res),
             hundredths |-> CHOOSE h \in TwoDecimals(res.similarity) : TRUE],
            FaceColor(res), res.bbox, font, broken)
    ELSE DrawTextWithOutline(
            DrawFaceShape(imgs, frame, "rectangle", "gray", res.bbox),
            frame, [name |-> "unknown", hundredths |-> 0],
            "white", res.bbox, font, broken)

\* lines 417-483: the loop, from result i on
RECURSIVE AnnotateFrom(_, _, _, _, _, _)
AnnotateFrom(imgs, frame, results, i, font, broken) ==
    IF i > Len(results) THEN [images |-> imgs, frame |-> frame]
    ELSE LET one == AnnotateResult(imgs, frame, results[i], font, broken)
         IN AnnotateFrom(one.images, one.frame, results, i + 1, font, broken)

\* a frame, a list of results, and a renderer in any state
InitDraw ==
    /\ InstInit
    /\ movie_title = "A"
    /\ similarity_threshold = 6
    /\ total_frames = 1
    /\ fps = 1000
    /\ disk = [f \in CheckpointPaths |-> Absent]
    /\ max_workers = 1
    /\ p_writer = FALSE
    /\ ParIdle
    /\ SeqIdle
    /\ EmptyIndex
    /\ r_pc = "returned"
    /\ r_match = <<>>
    /\ r_face = Unrecognized
    /\ r_frame = 0
    /\ r_faces = <<>>
    /\ r_i = 0
    /\ r_results = <<>>
    /\ seen = NoneSeen
    /\ label = NoLabel
    /\ images \in {<<Pixels(n)>> : n \in 1..2}
    /\ d_results \in ResultLists
    /\ returned_frames = <<>>
    /\ text_renderer \in RendererStates
    /\ broken_fonts \in SUBSET {"truetype", "default"}

\* draw_face_annotations(frame, recognition_results), lines 403-483
DrawFaceAnnotations(load_ok) ==
    /\ images # <<>>
    /\ Len(returned_frames) < DrawCalls
    /\ LET font == GetFont(text_renderer, load_ok)
           copy == FrameCopy(images, InputFrame)
           done == AnnotateFrom(copy.images, copy.frame, d_results, 1, font,
                                broken_fonts)
       IN /\ images' = done.images
          /\ returned_frames' = Append(returned_frames, done.frame)
          /\ text_renderer' = IF d_results = <<>> THEN text_renderer
                              ELSE [text_renderer EXCEPT !.font_cache = font]
    /\ UNCHANGED <<instVars, worldVars, parVars, seqVars, resVars, r_frame,
                   r_faces, r_i, r_results, seen, label, d_results,
                   broken_fonts>>

NextDraw == \E load_ok \in BOOLEAN : DrawFaceAnnotations(load_ok)

SpecDraw == InitDraw /\ [][NextDraw]_vars

\* fairness the scheduler gives: the main thread and every worker thread keep
\* running; stop_processing is an outside request and may never come
ParMainStep ==
    \/ ParBegin \/ ParOpenFails \/ ParStart \/ ParRead \/ ParPut \/ ParPutTimeout
    \/ ParDrain \/ ParWrite \/ ParSentinel

WorkerStep(w) ==
    \/ WorkerTop(w) \/ WorkerGet(w) \/ WorkerGetTimeout(w)
    \/ WorkerProcess(w) \/ WorkerFail(w)

FairSpecPar ==
    /\ SpecPar
    /\ WF_vars(ParMainStep)
    /\ \A w \in 1..MaxWorkers : WF_vars(w \in Workers /\ WorkerStep(w))

\* ------------------------------------------------- claims, parallel
\* frames that were handed to the workers and are not yet written
InFlight ==
    (Range(frame_queue) \ {None})
        \cup {wframe[w] : w \in {v \in Workers : wpc[v] = "proc"}}
        \cup Range(result_queue)
        \cup processed_results

\* C1: with an output path, the i-th frame the writer receives is input
\* frame i (the writer receives the input frames, all of them, in order).
C1_OutputIsInput ==
    p_writer => \A i \in DOMAIN p_written : p_written[i] = i

\* C2: a frame completed by a worker is never written while a lower-indexed
\* frame is still queued, inside a worker, or buffered.
C2_ReorderHoldsBack ==
    \A j \in InFlight :
        \A i \in Range(p_written) : i % p_smart_skip = 0 => i < j

\* C3: a frame whose put timed out on the full work queue has been written
\* to the output (unannotated) when the producer goes on to the next frame.
C3_TimedOutFrameWritten ==
    p_writer => queue_full_log \subseteq Range(p_written)

\* the guard of ParJoinFlush never holds: every sentinel a worker took, or
\* left in the queue, is still counted by unfinished_tasks
JoinBlocked ==
    p_pc = "join" => unfinished_tasks >= max_workers

\* C4: when no stop is requested, the parallel call eventually returns.
C4_Terminates ==
    <>(p_pc \in {"done", "failed"} \/ should_stop)

\* ------------------------------------------------ claims, sequential
\* the checkpoint file of the video the call is working on
VideoCheckpoint == disk[CheckpointPath(video_path)]

\* C5: when the call returns after a stop request and a checkpoint was
\* saved during the call, the checkpoint file still exists.
C5_StopKeepsCheckpoint ==
    (s_pc = "returned" /\ exit_reason = "stop" /\ last_save # NoSave)
        => VideoCheckpoint # Absent

\* C6: when the call returns after the read loop exhausted the source, no
\* checkpoint file of that video is left on disk.
C6_CompletionRemovesCheckpoint ==
    (s_pc = "returned" /\ exit_reason = "exhausted")
        => VideoCheckpoint = Absent

\* the stored record carries the recognizer's movie title and threshold
Matches(file) ==
    /\ file.kind = "record"
    /\ file.movie_title = movie_title
    /\ file.similarity_threshold = similarity_threshold

\* C7: at the start of a call a checkpoint is honoured only when the file
\* holds a record whose movie title and similarity threshold both equal the
\* recognizer's; otherwise (mismatch, missing or unreadable file) nothing is
\* loaded and the call starts at frame 0 with fresh statistics.
C7_LoadOnlyMatching ==
    [][(s_pc = "begun" /\ s_pc' = "loop") =>
          LET file == disk[CheckpointPath(video_path')]
          IN /\ checkpoint_data' # NoCheckpoint =>
                    Matches(file) /\ checkpoint_data' = file
             /\ ~Matches(file) =>
                    /\ checkpoint_data' = NoCheckpoint
                    /\ start_frame' = 0
                    /\ frame_count' = 0
                    /\ cap_pos' = 0
                    /\ stats' = FreshStats(total_frames, effective_skip')]_vars

\* C7 witness: resume was asked for, the file holds a record of the same
\* movie saved under another threshold, and the call started afresh
C7_Witness ==
    /\ s_pc = "loop"
    /\ resume
    /\ VideoCheckpoint.kind = "record"
    /\ VideoCheckpoint.movie_title = movie_title
    /\ VideoCheckpoint.similarity_threshold # similarity_threshold
    /\ start_frame = 0
    /\ frame_count = 0
    /\ stats = FreshStats(total_frames, effective_skip)

\* C8: after _save_checkpoint(video_path, n, stats) during the call,
\* _load_checkpoint(video_path) under the same configuration returns a
\* checkpoint with current_frame = n and the saved statistics.
C8_RoundTrip ==
    (s_pc = "loop" /\ last_save # NoSave) =>
        LET cp == LoadCheckpoint(VideoCheckpoint, movie_title,
                                 similarity_threshold)
        IN /\ cp # NoCheckpoint
           /\ cp.current_frame = last_save.current_frame
           /\ cp.stats = last_save.stats

\* C9: a call that resumed from a matching checkpoint finishes as a normal
\* completion (the statistics), not as an error result.
C9_ResumeCompletes ==
    (s_pc = "returned" /\ checkpoint_data # NoCheckpoint) => result = "stats"

\* C10: every checkpoint file is absent or holds one complete record, never a
\* truncated one.
C10_NeverPartial ==
    \A f \in CheckpointPaths : disk[f] # Partial

\* C11: every _save_checkpoint of a call writes the file _load_checkpoint
\* reads for that call's video, checkpoints/<stem>_checkpoint.json beside it,
\* whatever videos the instance processed before.
C11_SaveWritesVideoFile ==
    (s_pc = "loop" /\ last_save # NoSave) =>
        last_save.file = CheckpointPath(video_path)

\* C12: in long-video mode the computed skip is 1 up to 30 minutes, 2 up to
\* 90, 3 up to 180 and 5 above, each boundary in the lower band; 10, 45, 100
\* and 200 minutes give 1, 2, 3 and 5.
C12_SmartSkipBands ==
    (s_pc = "loop" /\ long_video_mode) =>
        /\ total_frames <= FramesIn(30, fps) => smart_skip = 1
        /\ (total_frames > FramesIn(30, fps)
                /\ total_frames <= FramesIn(90, fps)) => smart_skip = 2
        /\ (total_frames > FramesIn(90, fps)
                /\ total_frames <= FramesIn(180, fps)) => smart_skip = 3
        /\ total_frames > FramesIn(180, fps) => smart_skip = 5
        /\ total_frames = FramesIn(10, fps) => smart_skip = 1
        /\ total_frames = FramesIn(45, fps) => smart_skip = 2
        /\ total_frames = FramesIn(100, fps) => smart_skip = 3
        /\ total_frames = FramesIn(200, fps) => smart_skip = 5

\* C12 witness: a 29.97 fps video of exactly 90 minutes got skip 2
C12_Witness ==
    /\ s_pc = "loop"
    /\ long_video_mode
    /\ fps = 29970
    /\ total_frames = FramesIn(90, fps)
    /\ smart_skip = 2

\* C13: the skip rate applied to the frames is max(frame_skip, computed): the
\* computed value when frame_skip <= computed, frame_skip when it is larger,
\* never below frame_skip; the frames processed are the multiples of it.
C13_EffectiveSkipIsMax ==
    s_pc = "loop" =>
        LET larger == IF frame_skip <= smart_skip THEN smart_skip
                      ELSE frame_skip
        IN /\ frame_skip <= smart_skip => effective_skip = smart_skip
           /\ frame_skip > smart_skip => effective_skip = frame_skip
           /\ effective_skip >= frame_skip
           /\ detected = {n \in (start_frame + 1)..frame_count :
                            n % larger = 0}

\* C13 witness: the caller asked for every third frame of a video whose
\* computed skip is 2, and frame 3 was processed
C13_Witness ==
    /\ s_pc = "loop"
    /\ smart_skip = 2
    /\ frame_skip = 3
    /\ detected = {3}

\* frames read by the call so far, and those the skip rate passes by
FramesRead == (start_frame + 1)..frame_count

SkippedFrames == {n \in FramesRead : n % effective_skip # 0}

\* processed_frames the call started from
LoadedProcessedFrames ==
    IF checkpoint_data # NoCheckpoint
    THEN checkpoint_data.stats.processed_frames
    ELSE 0

\* C14 as stated: processed_frames always equals the number of frames read
\* so far whose number is a multiple of the effective skip (counted over the
\* frames read by the call, or over all frames up to the current one).
C14_ProcessedCountsMultiples ==
    s_pc = "loop" =>
        \/ stats.processed_frames = Cardinality(FramesRead \ SkippedFrames)
        \/ stats.processed_frames =
                Cardinality({n \in 1..frame_count : n % effective_skip = 0})

\* C14 amended: a frame whose number is not a multiple of the effective skip
\* is written unmodified and never detected or annotated; every other frame
\* read is processed; processed_frames equals the count loaded from the
\* checkpoint (0 on a fresh start) plus the number of frames read by this
\* call whose number is a multiple of the effective skip.
C14_SkippedFramesPassThrough ==
    s_pc \in {"loop", "returned"} =>
        /\ SkippedFrames \cap (detected \cup annotated) = {}
        /\ s_writer => SkippedFrames \subseteq Range(s_written)
        /\ FramesRead \ SkippedFrames \subseteq detected
        /\ stats.processed_frames =
              LoadedProcessedFrames + Cardinality(FramesRead \ SkippedFrames)

\* C14 witness: with skip 2 and an output file, frames 1 and 3 went to the
\* writer without detection and frame 2 was processed
C14_Witness ==
    /\ s_pc = "loop"
    /\ effective_skip = 2
    /\ s_writer
    /\ frame_count = 3
    /\ start_frame = 0
    /\ detected = {2}
    /\ {1, 3} \subseteq Range(s_written)

\* ------------------------------------------------- claims, resolver
ThresholdNow == ThresholdUnits(similarity_threshold)

\* a movie scope is active: a title is set and the roster is not empty
Scoped == movie_title # NoTitle /\ movie_actors # {}

TargetMovie(r) == Lower(r.movie_title) = Lower(movie_title)

\* the candidates the index query returned in the active scope, nearest
\* first: those of the target movie among the 50 nearest at 0.3 or above, or
\* the single nearest entry in global search
ScopeCandidates ==
    IF Scoped
    THEN SelectSeq(SearchSimilarFaces(index, TopKScoped, ScopedFloor),
                   TargetMovie)
    ELSE SearchSimilar(index, TopKGlobal)

\* C15: when the best candidate in the active scope has a similarity equal
\* to the threshold the face is recognised, when it is strictly below the
\* face is not recognised, in movie-scoped and in global search.
C15_ThresholdBoundary ==
    (r_pc = "resolved" /\ ScopeCandidates # <<>>) =>
        /\ ScopeCandidates[1].similarity = ThresholdNow => r_face.recognized
        /\ ScopeCandidates[1].similarity < ThresholdNow => ~r_face.recognized

\* C15 witness: movie-scoped, the best candidate of the movie sits exactly
\* on the threshold and the face is recognised
C15_Witness ==
    /\ r_pc = "resolved"
    /\ Scoped
    /\ ScopeCandidates # <<>>
    /\ ScopeCandidates[1].similarity = ThresholdNow
    /\ r_face.recognized

\* C16: a face is recognised if and only if the index holds an entry inside
\* the active scope (of the target movie when a movie scope is active, any
\* entry otherwise) whose similarity is at least the threshold.
C16_RecognizedIffEntryInScope ==
    r_pc = "resolved" =>
        (r_face.recognized <=>
            \E i \in DOMAIN index :
                /\ Scoped => TargetMovie(index[i])
                /\ index[i].similarity >= ThresholdNow)

\* C17: with a movie scope active every returned match carries the target
\* title up to case and a similarity of at least the threshold; a candidate
\* of another movie is never returned.
C17_ScopedMatchInMovie ==
    (r_pc = "resolved" /\ Scoped) =>
        \A i \in DOMAIN r_match :
            /\ TargetMovie(r_match[i])
            /\ r_match[i].similarity >= ThresholdNow

\* C17 witness: the nearest entry belongs to another movie and a farther
\* entry of the target movie, stored in another case, was returned
C17_Witness ==
    /\ r_pc = "resolved"
    /\ Scoped
    /\ r_match # <<>>
    /\ index[1].movie_title = "B"
    /\ index[1].similarity > r_match[1].similarity
    /\ r_match[1].movie_title # movie_title

\* the single nearest entry when it reaches the threshold
GlobalTop1 ==
    IF index # <<>> /\ index[1].similarity >= ThresholdNow
    THEN <<index[1]>>
    ELSE <<>>

\* C18: a recognizer built with a title whose roster is empty resolves a
\* face to exactly what a recognizer built without a title returns for the
\* same index and threshold: the top-1 global search floored at the threshold.
C18_EmptyRosterIsGlobal ==
    (r_pc = "resolved" /\ movie_title # NoTitle /\ movie_actors = {}) =>
        /\ r_match = SearchInMovieScope(index, NoTitle, {}, ThresholdNow)
        /\ r_match = GlobalTop1

\* C18 witness: the title names a movie the index does not hold and the
\* face was recognised as an actor of another movie
C18_Witness ==
    /\ r_pc = "resolved"
    /\ movie_title = "C"
    /\ movie_actors = {}
    /\ r_face.recognized
    /\ r_face.movie_source = "a"

\* the in-scope candidates at or above the threshold
InScopeMatches ==
    SelectSeq(ScopeCandidates, LAMBDA r : r.similarity >= ThresholdNow)

\* positions of those within 0.001 of the best
TieGroup ==
    {i \in DOMAIN InScopeMatches :
        InScopeMatches[1].similarity - InScopeMatches[i].similarity < TieWindow}

TieActors == {InScopeMatches[i].actor_name : i \in TieGroup}

TieOf(a) == {i \in TieGroup : InScopeMatches[i].actor_name = a}

RECURSIVE TieSum(_)
TieSum(S) ==
    IF S = {} THEN 0
    ELSE LET i == CHOOSE j \in S : TRUE
         IN InScopeMatches[i].similarity + TieSum(S \ {i})

\* 10 if on the allow-list + min(candidates of the actor, 5) + 10 x their mean
\* similarity, times 1000 x the number of candidates of the actor
ClaimScoreTimesCount(a) ==
    LET k == Cardinality(TieOf(a))
    IN ((IF a \in MainActors THEN 10 ELSE 0) + (IF k < 5 THEN k ELSE 5))
            * 1000 * k
       + TieSum(TieOf(a))

\* the score of a is at least the score of b
ClaimScoreAtLeast(a, b) ==
    ClaimScoreTimesCount(a) * Cardinality(TieOf(b))
        >= ClaimScoreTimesCount(b) * Cardinality(TieOf(a))

ClaimBefore(a, b) ==
    LET best(x) == CHOOSE m \in {InScopeMatches[i].similarity : i \in TieOf(x)} :
                        \A i \in TieOf(x) : InScopeMatches[i].similarity <= m
    IN \/ ~ClaimScoreAtLeast(b, a)
       \/ /\ ClaimScoreAtLeast(a, b)
          /\ ClaimScoreAtLeast(b, a)
          /\ \/ best(a) > best(b)
             \/ best(a) = best(b) /\ NameRank(a) < NameRank(b)

\* how often a candidate of that actor and similarity occurs
Occurs(a, sim) ==
    Cardinality({i \in DOMAIN InScopeMatches :
                    /\ InScopeMatches[i].actor_name = a
                    /\ InScopeMatches[i].similarity = sim})

\* C20: the selected actor is a function of the set of candidates alone,
\* whatever the order in which the index returned those of equal similarity
\* and also when two actors score the same; candidates P (0.8001, on the
\* allow-list, 3 faces) and Q (0.8000, not on it, 1 face) give P.
C20_TieBreakDeterministic ==
    (r_pc = "resolved" /\ Scoped /\ InScopeMatches # <<>>) =>
        /\ r_match # <<>>
        /\ \A b \in TieActors \ {r_match[1].actor_name} :
                ClaimBefore(r_match[1].actor_name, b)
        /\ (/\ Len(InScopeMatches) = 4
            /\ Occurs("P", 8001) = 3
            /\ Occurs("Q", 8000) = 1) => r_match[1].actor_name = "P"

\* C20 witness: actors Q and R score the same, the index returned the
\* candidate of R first, and Q was selected
C20_Witness ==
    /\ r_pc = "resolved"
    /\ Scoped
    /\ Len(InScopeMatches) = 2
    /\ InScopeMatches[1] = Entry("a", "R", 8001)
    /\ InScopeMatches[2] = Entry("a", "Q", 8001)
    /\ r_match = <<Entry("a", "Q", 8001)>>

SeqOpenFailed == s_pc = "returned" /\ exit_reason = "open_failed"

ParOpenFailed == p_pc = "failed"

\* C24: when the source cannot be opened, either pipeline returns the
\* {'error': ...} result, has read and written no frame, has started no
\* worker, and is_processing is false once the call is over.
C24_OpenFailureIsErrorResult ==
    /\ SeqOpenFailed =>
            /\ result = "error"
            /\ cap_pos = 0 /\ frame_count = 0
            /\ detected = {} /\ s_written = <<>>
            /\ p_pc \in {"start", "failed"} => ~is_processing
    /\ ParOpenFailed =>
            /\ p_frame_count = 0 /\ p_written = <<>>
            /\ frame_queue = <<>> /\ result_queue = <<>>
            /\ \A w \in DOMAIN wpc : wpc[w] = "idle"
            /\ s_pc \in {"idle", "returned"} => ~is_processing

\* both pipelines have been called on a source that did not open
C24_Witness ==
    /\ SeqOpenFailed
    /\ ParOpenFailed
    /\ result = "error"
    /\ ~is_processing

\* C25: at every exit of process_video_file the caller gets finalized
\* statistics: actors_found is a list and processing_time is the elapsed
\* time.
C25_StatsFinalizedAtEveryExit ==
    s_pc = "returned" =>
        /\ result = "stats"
        /\ stats.actors_found.kind = "list"
        /\ stats.processing_time = Elapsed

\* C26: once stop_processing has set the stop flag during a call of
\* process_video_file, the flag stays set until the call returns, no further
\* frame is read, and the call returns statistics with reader and writer
\* released.
C26_StopEndsRun ==
    [][(should_stop /\ s_pc \in {"begun", "loop"}) =>
            /\ cap_pos' = cap_pos
            /\ frame_count' = frame_count
            /\ s_pc' = "loop" => should_stop'
            /\ (s_pc = "loop" /\ s_pc' = "returned") =>
                    result' = "stats" /\ released']_vars

\* C27: a call that completes naturally has invoked the progress callback
\* for the final frame, current_frame = total_frames.
C27_CallbackOnFinalFrame ==
    (s_pc = "returned" /\ exit_reason = "exhausted") =>
        total_frames \in callback_frames

\* C28: gc_collections is increased once per periodic check that reads a
\* usage strictly above max_memory_usage, never at a check at or below it,
\* and once at teardown: a run that completes or is stopped returns the
\* number of over-limit checks plus one.
C28_GcCountsCollections ==
    /\ s_pc = "loop" => stats.gc_collections = over_limit
    /\ (s_pc = "returned" /\ result = "stats") =>
            /\ exit_reason \in {"stop", "exhausted"}
            /\ stats.gc_collections = over_limit + 1

\* a run returned after its one periodic check, at frame 100, read a usage
\* above the limit
C28_Witness ==
    /\ s_pc = "returned"
    /\ result = "stats"
    /\ frame_count \in MemoryCheckInterval..(MemoryCheckInterval + 1)
    /\ over_limit = 1
    /\ stats.gc_collections = 2

\* ------------------------------------------------ the faces of a frame
\* the faces of the frame whose handling did not raise, in detection order
KeptFaces ==
    SelectSeq([i \in 1..Len(r_faces) |-> i],
              LAMBDA i : r_faces[i].fault # "face")

\* the frame whose faces were resolved has gone through the read loop
FrameDone == r_pc = "returned" /\ r_frame = frame_count

\* C21: a face whose index query raised is in the results of its frame,
\* marked recognized = false, in scoped and in global search, and the
\* results hold every face whose own handling did not raise.
C21_QueryErrorIsUnrecognized ==
    r_pc = "returned" =>
        /\ \A i \in DOMAIN r_faces :
                r_faces[i].fault = "query" =>
                    \E k \in DOMAIN r_results :
                        /\ r_results[k].face_id = i - 1
                        /\ ~r_results[k].recognized
        /\ Len(r_results) = Len(KeptFaces)

\* a frame with a face whose query raised and a recognised face after it
\* went through the read loop
C21_Witness ==
    /\ FrameDone
    /\ Len(r_faces) = 2
    /\ r_faces[1].fault = "query"
    /\ Len(r_results) = 2
    /\ ~r_results[1].recognized
    /\ r_results[2].recognized
    /\ r_frame \in annotated

\* C22: a face whose handling raised is left out of the results of its
\* frame; every other face is there, in detection order, with its face_id
\* and resolved as the index answers for it; the frame goes through the read
\* loop, is written, and is annotated with the results it has.
C22_FaceErrorDropsOnlyThatFace ==
    /\ r_pc = "returned" =>
            /\ Len(r_results) = Len(KeptFaces)
            /\ \A k \in DOMAIN r_results :
                    /\ r_results[k].face_id = KeptFaces[k] - 1
                    /\ r_results[k].recognized <=>
                            (/\ r_faces[KeptFaces[k]].fault = "none"
                             /\ SearchInMovieScope(
                                    ViewOf(r_faces[KeptFaces[k]]), movie_title,
                                    movie_actors,
                                    ThresholdUnits(similarity_threshold))
                                 # <<>>)
    /\ FrameDone =>
            /\ result # "error"
            /\ r_frame \in detected
            /\ s_writer => r_frame \in Range(s_written)
            /\ r_results # <<>> => r_frame \in annotated

\* a frame whose first face raised and whose second face was recognised
\* has been annotated and written
C22_Witness ==
    /\ FrameDone
    /\ Len(r_faces) = 2
    /\ r_faces[1].fault = "face"
    /\ Len(r_results) = 1
    /\ r_results[1].face_id = 1
    /\ r_results[1].recognized
    /\ r_frame \in annotated
    /\ s_writer
    /\ r_frame \in Range(s_written)

\* C29: a run with skip 1 that completes returns processed_frames = the
\* number of frames, faces_detected = the faces detected over all frames,
\* faces_recognized = those of them with a match in scope at or above the
\* threshold, and actors_found = the names of their matches.
C29_StatsTotals ==
    (s_pc = "returned" /\ exit_reason = "exhausted" /\ effective_skip = 1) =>
        /\ stats.processed_frames = total_frames
        /\ stats.faces_detected = seen.faces
        /\ stats.faces_recognized = seen.matched
        /\ Range(stats.actors_found.elems) = seen.names

\* ------------------------------------------------- the label of a face
\* the character name of a result, "" when the result has no metadata, no
\* character key or an empty character
CharacterOf(res) ==
    IF "metadata" \notin DOMAIN res THEN ""
    ELSE IF "character" \notin DOMAIN res.metadata THEN ""
         ELSE res.metadata.character

\* C30: the label of a recognised result is '<name> (<similarity to two
\* decimals>)', the name being the character name of the metadata when
\* there is a non-empty one and the actor name otherwise.
C30_LabelPrefersCharacter ==
    (r_pc = "drawn" /\ r_face.recognized) =>
        /\ label.name = IF CharacterOf(r_face) # "" THEN CharacterOf(r_face)
                        ELSE r_face.actor_name
        /\ label.hundredths * 100 - r_face.similarity \in -50..50

\* a result with a character name has been labelled with it and with its
\* similarity rounded up
C30_Witness ==
    /\ r_pc = "drawn"
    /\ r_face.recognized
    /\ CharacterOf(r_face) # ""
    /\ label.name = CharacterOf(r_face)
    /\ label.name # r_face.actor_name
    /\ r_face.similarity = 5999
    /\ label.hundredths = 60

\* ---------------------------------------------------- confidence tiers
\* C32: the confidence of a recognised face is 'high' when its similarity
\* is at least 0.85, 'medium' when it is at least 0.70 and below 0.85, and
\* 'low' below 0.70; both boundaries belong to the upper tier.
C32_ConfidenceTiers ==
    (r_pc = "resolved" /\ r_face.recognized) =>
        /\ r_face.similarity >= 8500 => r_face.confidence = "high"
        /\ (r_face.similarity >= 7000 /\ r_face.similarity < 8500) =>
               r_face.confidence = "medium"
        /\ r_face.similarity < 7000 => r_face.confidence = "low"

C32_Witness ==
    /\ r_pc = "resolved"
    /\ r_face.recognized
    /\ r_face.similarity = 7000
    /\ r_face.confidence = "medium"

\* ------------------------------------------- the single scoped match
\* C37: the scoped resolver returns at most one match; a returned match is
\* at or above the threshold and less than 0.001 below the highest
\* similarity among the in-scope candidates; when no other in-scope
\* candidate lies within 0.001 of the best, the match is that best
\* candidate itself.
C37_OneMatchNearTheBest ==
    (r_pc = "resolved" /\ Scoped) =>
        /\ Len(r_match) <= 1
        /\ r_match # <<>> =>
              /\ r_match[1].similarity >= ThresholdNow
              /\ \E i \in DOMAIN ScopeCandidates :
                        ScopeCandidates[i] = r_match[1]
              /\ \A i \in DOMAIN ScopeCandidates :
                        ScopeCandidates[i].similarity
                            - r_match[1].similarity < TieWindow
        /\ (/\ InScopeMatches # <<>>
            /\ \A i \in DOMAIN ScopeCandidates \ {1} :
                    ScopeCandidates[1].similarity
                        - ScopeCandidates[i].similarity >= TieWindow) =>
              r_match = <<ScopeCandidates[1]>>

\* C37 witness: three in-scope candidates at or above the threshold, the
\* best one alone within 0.001 of itself, and it was returned
C37_Witness ==
    /\ r_pc = "resolved"
    /\ Scoped
    /\ Len(InScopeMatches) >= 3
    /\ Cardinality(TieGroup) = 1
    /\ r_match = <<InScopeMatches[1]>>

\* ------------------------------------------------ a stop request kept
\* C38: a stop request is never lost: once stop_processing has been called
\* while is_processing is true, the request stays pending until the call
\* has ended, so the read loop of the running call sees it and exits early.
C38_StopRequestKept ==
    [][(is_processing /\ should_stop) => (should_stop' \/ ~is_processing')]_vars

\* ------------------------------------------------ periodic checkpoints
\* C34: in long-video mode a checkpoint recording frame n is saved every
\* time the frame counter n reaches a multiple of int(fps x 30), for every
\* fps and every effective skip rate.
C34_CheckpointEveryInterval ==
    [][(/\ s_pc = "loop"
        /\ s_pc' = "loop"
        /\ long_video_mode
        /\ frame_count' = frame_count + 1
        /\ frame_count' % CheckpointInterval(fps) = 0) =>
            /\ last_save'.kind = "save"
            /\ last_save'.current_frame = frame_count']_vars

\* ------------------------------------------- the running statistics
\* the distinct names in actors_found, a set or a list loaded from JSON
DistinctActors(st) ==
    IF st.actors_found.kind = "list" THEN Range(st.actors_found.elems)
    ELSE st.actors_found.elems

StatsOrdered ==
    /\ stats.faces_recognized <= stats.faces_detected
    /\ Cardinality(DistinctActors(stats)) <= stats.faces_recognized
    /\ stats.processed_frames <= frame_count
    /\ stats.memory_warnings <= stats.gc_collections

StatsGrow ==
    /\ stats'.processed_frames >= stats.processed_frames
    /\ stats'.faces_detected >= stats.faces_detected
    /\ stats'.faces_recognized >= stats.faces_recognized
    /\ DistinctActors(stats) \subseteq DistinctActors(stats')
    /\ stats'.memory_warnings >= stats.memory_warnings
    /\ stats'.gc_collections >= stats.gc_collections

\* C39: in every reachable state of process_video_file faces_recognized <=
\* faces_detected, the number of distinct actors found <= faces_recognized,
\* processed_frames <= the frames read so far and memory_warnings <=
\* gc_collections, and no counter decreases during a run.
C39_StatsOrderedAndGrowing ==
    /\ [](s_pc \in {"loop", "returned"} => StatsOrdered)
    /\ [][(s_pc = "loop" /\ s_pc' \in {"loop", "returned"}) => StatsGrow]_vars

\* C39 witness: a periodic check collected and warned, and a face was
\* recognised afterwards
C39_Witness ==
    /\ s_pc = "loop"
    /\ stats.memory_warnings >= 1
    /\ stats.gc_collections > stats.memory_warnings
    /\ stats.faces_recognized >= 1
    /\ stats.faces_detected > stats.faces_recognized

\* ------------------------------------------- the memory check period
\* C36: the periodic memory check of process_video_file runs once every
\* memory_check_interval (100) processed frames, for every effective skip
\* rate: a check that reads the memory, here one that finds it over the
\* limit, is made on a frame that is the 100th, 200th, ... processed one.
C36_CheckEveryHundredProcessed ==
    [][(s_pc = "loop" /\ over_limit' # over_limit) =>
            stats'.processed_frames % MemoryCheckInterval = 0]_vars

\* ------------------------------------------- the frames reported
\* the frame reported last before frame n, 0 when there is none: the
\* _last_progress of a recognizer that has not processed anything before
ReportedBefore(n) ==
    LET earlier == {m \in callback_frames : m < n}
    IN IF earlier = {} THEN 0
       ELSE CHOOSE m \in earlier : \A k \in earlier : k <= m

\* lines 695-703 on frame n of this run, by the inputs of the run alone
FreshReports(n) ==
    \/ n % Max2(1, Min2((fps * 3) \div 1000, 150)) = 0
    \/ 200 * (n - ReportedBefore(n)) >= Max2(total_frames, 10000)
    \/ n = total_frames

\* C40: the frames at which process_video_file invokes the progress
\* callback depend only on the inputs of the run (fps, total frames, skip
\* rate, start frame): a run on a recognizer that has already processed a
\* video reports the frames a fresh recognizer reports.
C40_CallbacksDependOnInputsOnly ==
    (s_pc = "returned" /\ exit_reason = "exhausted") =>
        \A n \in (start_frame + 1)..total_frames :
            n \in callback_frames <=>
                (n % effective_skip = 0 /\ FreshReports(n))

\* ------------------------------------------- a stop in the parallel call
\* C33: if stop_processing is requested while the parallel call is in its
\* read loop, the producer and every worker see the flag and the call
\* eventually returns: no thread stays blocked on a put, a get or the join.
C33_StopEndsParallelCall ==
    (should_stop /\ p_pc \in {"read", "put", "drain"})
        ~> (p_pc \in {"done", "failed"})

\* ------------------------------------------- frames held in memory
\* frames held at once: in the work queue, inside workers, in the results
\* queue and in the reorder buffer
FramesHeld ==
    Cardinality(Range(frame_queue) \ {None})
        + Cardinality({w \in Workers : wpc[w] = "proc"})
        + Len(result_queue)
        + Cardinality(processed_results)

\* C35: during parallel processing the frames held in memory at once stay
\* bounded by a function of max_workers, with or without an output path
\* (here the 2 x max_workers of the work queue plus 2 x max_workers, the
\* most a call with an output path holds), and the work queue never holds
\* more than 2 x max_workers frames.
C35_FramesHeldBounded ==
    /\ Len(frame_queue) <= 2 * max_workers
    /\ FramesHeld <= 4 * max_workers

\* ------------------------------------------- the frame left as it was
\* C31: draw_face_annotations leaves its input frame unchanged for every
\* list of results, all drawing being done on a copy (no buffer that
\* existed before a call is painted on by it), and its output depends only
\* on the frame and the results: two calls with the same arguments return
\* identical frames.
C31_InputKeptOutputRepeatable ==
    /\ [](\A j, k \in DOMAIN returned_frames :
                images[returned_frames[j]] = images[returned_frames[k]])
    /\ [][\A b \in DOMAIN images : images'[b] = images[b]]_vars

\* C31 witness: two calls on two faces, one recognised and one not, have
\* returned two buffers, other than the input, with the same drawing
C31_Witness ==
    /\ Len(returned_frames) = 2
    /\ Len(d_results) = 2
    /\ d_results[1].recognized
    /\ ~d_results[2].recognized
    /\ returned_frames[1] # returned_frames[2]
    /\ InputFrame \notin Range(returned_frames)
    /\ images[returned_frames[2]] # images[InputFrame]

====
